---- MODULE Spec2Model ----
(***************************************************************************)
(* Focus Flow: the relevance API (focus-flow-api/controllers/              *)
(* taskController.js) and the extension's background script                *)
(* (focus-flow-web/background.js) as state machines.                       *)
(*                                                                         *)
(* Text is a sequence of one-character strings.  A JavaScript object is a  *)
(* record; a property that is undefined is a field the record lacks.       *)
(* A number that the code computes with Math.sqrt is kept exactly, as      *)
(* sign * sqrt(p / q) with p/q in lowest terms (see Root).                 *)
(***************************************************************************)
EXTENDS Integers, Sequences, FiniteSets, TLC

(***************************************************************************)
(* Bounds of the model.                                                    *)
(***************************************************************************)
\* HTTP requests the API serves in one run (they may overlap).
NumReqs == 2

Reqs == 1..NumReqs

(***************************************************************************)
(* Exact numbers sign * sqrt(p / q).                                       *)
(***************************************************************************)
RECURSIVE GCD(_, _)
GCD(a, b) == IF b = 0 THEN a ELSE GCD(b, a % b)

\* The number n / sqrt(d), for d > 0, in canonical form.
Root(n, d) ==
    IF n = 0 THEN [sign |-> 0, p |-> 0, q |-> 1]
    ELSE LET g == GCD(n * n, d)
         IN [sign |-> IF n < 0 THEN -1 ELSE 1, p |-> (n * n) \div g, q |-> d \div g]

\* The decimal literal a / b of the source (0.3 is Dec(3, 10)).
Dec(a, b) == Root(a, b * b)

\* x < y
Less(x, y) ==
    IF x.sign # y.sign THEN x.sign < y.sign
    ELSE IF x.sign = 0 THEN FALSE
    ELSE IF x.sign = 1 THEN x.p * y.q < y.p * x.q
    ELSE x.p * y.q > y.p * x.q

\* x > y
Greater(x, y) == Less(y, x)

(***************************************************************************)
(* Text.                                                                   *)
(***************************************************************************)
\* String.prototype.toLowerCase on the letters the model's texts use.
LowerChar(c) ==
    CASE c = "Y" -> "y"
      [] c = "E" -> "e"
      [] c = "S" -> "s"
      [] c = "N" -> "n"
      [] c = "O" -> "o"
      [] OTHER -> c

toLowerCase(s) == [i \in 1..Len(s) |-> LowerChar(s[i])]

\* String.prototype.includes
includes(s, sub) ==
    \E i \in 1..(Len(s) - Len(sub) + 1) : SubSeq(s, i, i + Len(sub) - 1) = sub

IsWhitespace(c) == c = " "

\* String.prototype.trim
RECURSIVE trim(_)
trim(s) ==
    IF s = <<>> THEN s
    ELSE IF IsWhitespace(Head(s)) THEN trim(Tail(s))
    ELSE IF IsWhitespace(s[Len(s)]) THEN trim(SubSeq(s, 1, Len(s) - 1))
    ELSE s

\* String.prototype.split(sep) for a one-character separator: the pieces
\* between separators, empty pieces included ("" splits into [""]).
RECURSIVE split(_, _)
split(s, sep) ==
    IF \A i \in 1..Len(s) : s[i] # sep THEN <<s>>
    ELSE LET k == CHOOSE i \in 1..Len(s) :
                      s[i] = sep /\ \A j \in 1..(i - 1) : s[j] # sep
         IN <<SubSeq(s, 1, k - 1)>> \o split(SubSeq(s, k + 1, Len(s)), sep)

\* Array.prototype.filter(site => site.length > 0)
RECURSIVE filterNonEmpty(_)
filterNonEmpty(xs) ==
    IF xs = <<>> THEN <<>>
    ELSE (IF Len(Head(xs)) > 0 THEN <<Head(xs)>> ELSE <<>>) \o filterNonEmpty(Tail(xs))

(***************************************************************************)
(* Values that are not data: null, an exception, a rejection.              *)
(***************************************************************************)
\* A value that is null or was never assigned.
Null == [null |-> TRUE]

\* An exception that leaves a function instead of a return value.
Thrown(message) == [thrown |-> message]

IsThrown(result) == "thrown" \in DOMAIN result

\* A rejected completion (history only).
Rejected == [rejected |-> TRUE]

(***************************************************************************)
(* taskController.js: the similarity scorer.                               *)
(***************************************************************************)
\* A vector argument: absent (null or undefined) or an array of numbers.
Vec(xs) == [present |-> TRUE, data |-> xs]
NoVec == [present |-> FALSE, data |-> <<>>]

RECURSIVE SumProducts(_, _)
SumProducts(xs, ys) ==
    IF xs = <<>> THEN 0 ELSE Head(xs) * Head(ys) + SumProducts(Tail(xs), Tail(ys))

\* A scorer without the test for a zero magnitude: 0 / 0 is NaN.
cosineSimilarity_noZeroCheck(vecA, vecB) ==
    IF ~vecA.present \/ ~vecB.present \/ Len(vecA.data) # Len(vecB.data)
    THEN Dec(0, 1)
    ELSE LET dotProduct == SumProducts(vecA.data, vecB.data)
             magnitudeASq == SumProducts(vecA.data, vecA.data)
             magnitudeBSq == SumProducts(vecB.data, vecB.data)
         IN IF magnitudeASq = 0 \/ magnitudeBSq = 0
            THEN [nan |-> TRUE]
            ELSE Root(dotProduct, magnitudeASq * magnitudeBSq)

\* A scorer that reports vectors of different lengths as an error.
cosineSimilarity_strict(vecA, vecB) ==
    IF ~vecA.present \/ ~vecB.present
    THEN Dec(0, 1)
    ELSE IF Len(vecA.data) # Len(vecB.data)
    THEN Thrown("length mismatch")
    ELSE LET dotProduct == SumProducts(vecA.data, vecB.data)
             magnitudeASq == SumProducts(vecA.data, vecA.data)
             magnitudeBSq == SumProducts(vecB.data, vecB.data)
         IN IF magnitudeASq = 0 \/ magnitudeBSq = 0
            THEN Dec(0, 1)
            ELSE Root(dotProduct, magnitudeASq * magnitudeBSq)

\* A scorer that divides by the first magnitude twice.
cosineSimilarity_byFirstMagnitude(vecA, vecB) ==
    IF ~vecA.present \/ ~vecB.present \/ Len(vecA.data) # Len(vecB.data)
    THEN Dec(0, 1)
    ELSE LET dotProduct == SumProducts(vecA.data, vecB.data)
             magnitudeASq == SumProducts(vecA.data, vecA.data)
             magnitudeBSq == SumProducts(vecB.data, vecB.data)
         IN IF magnitudeASq = 0 \/ magnitudeBSq = 0
            THEN Dec(0, 1)
            ELSE Root(dotProduct, magnitudeASq * magnitudeASq)

cosineSimilarity(vecA, vecB) ==
    IF ~vecA.present \/ ~vecB.present \/ Len(vecA.data) # Len(vecB.data)
    THEN Dec(0, 1)
    ELSE LET dotProduct == SumProducts(vecA.data, vecB.data)
             \* magnitudeA and magnitudeB are the square roots of these
             magnitudeASq == SumProducts(vecA.data, vecA.data)
             magnitudeBSq == SumProducts(vecB.data, vecB.data)
         IN IF magnitudeASq = 0 \/ magnitudeBSq = 0
            THEN Dec(0, 1)
            ELSE Root(dotProduct, magnitudeASq * magnitudeBSq)

(***************************************************************************)
(* taskController.js: request validation and the two relevance stages.     *)
(***************************************************************************)
\* Texts a request field may carry: '' and a non-empty text.
Texts == {<<>>, <<"t">>}

\* express.json() leaves req.body an object; a field the caller did not send
\* is undefined.  A body maps the fields it has to their texts.
BodiesOver(fields) == UNION {[present -> Texts] : present \in SUBSET fields}

\* !req.body[field]
Falsy(body, field) == field \notin DOMAIN body \/ body[field] = <<>>

\* A validation that rejects a field only when it is missing: '' passes.
validateRequest_missingOnly(body, requiredFields) ==
    IF \E i \in 1..Len(requiredFields) : requiredFields[i] \notin DOMAIN body
    THEN LET first == CHOOSE i \in 1..Len(requiredFields) :
                          /\ requiredFields[i] \notin DOMAIN body
                          /\ \A j \in 1..(i - 1) : requiredFields[j] \in DOMAIN body
         IN [status |-> 400,
             json |-> [error |-> "Missing required field",
                       field |-> requiredFields[first],
                       required |-> requiredFields]]
    ELSE Null

\* The 400 response of the first required field that is missing, or Null.
validateRequest(body, requiredFields) ==
    IF \E i \in 1..Len(requiredFields) : Falsy(body, requiredFields[i])
    THEN LET first == CHOOSE i \in 1..Len(requiredFields) :
                          /\ Falsy(body, requiredFields[i])
                          /\ \A j \in 1..(i - 1) : ~Falsy(body, requiredFields[j])
         IN [status |-> 400,
             json |-> [error |-> "Missing required field",
                       field |-> requiredFields[first],
                       required |-> requiredFields]]
    ELSE Null

\* What the loaded model may return for [task, tabName]: two vectors of one
\* length (integer representatives of their directions; cosineSimilarity
\* divides by both magnitudes).  Their similarities are
\* 0.3, 0.4, 0.28.., 0.42.., 1 and -0.31..
EmbeddingPairs ==
    { <<<<1, 3, 0>>, <<3, 0, 1>>>>,
      <<<<1, 2, 0>>, <<2, 0, 1>>>>,
      <<<<1, 3, 0>>, <<2, 0, 1>>>>,
      <<<<3, 0, 1>>, <<1, 2, 0>>>>,
      <<<<1, 3, 0>>, <<1, 3, 0>>>>,
      <<<<1, 3, 0>>, <<-1, 0, 0>>>> }

\* error.message of what a rejected promise carries (it may be empty).
ErrorMessages == {"", "failed"}

NotInitialized == "Hugging Face pipeline not initialized"

\* An embedding verdict that is relevant from 0.4 on (>= for >).
checkRelevanceMiniLM_return_atLeast(embeddings) ==
    LET taskEmbedding == Vec(embeddings[1])
        tabEmbedding == Vec(embeddings[2])
        similarity == cosineSimilarity(taskEmbedding, tabEmbedding)
    IN [relevant |-> ~Less(similarity, Dec(4, 10)),
        confidence |-> similarity,
        method |-> "embeddings"]

\* checkRelevanceMiniLM, lines 58-66: the value returned once the extractor
\* has resolved.
checkRelevanceMiniLM_return(embeddings) ==
    LET taskEmbedding == Vec(embeddings[1])
        tabEmbedding == Vec(embeddings[2])
        similarity == cosineSimilarity(taskEmbedding, tabEmbedding)
    IN [relevant |-> Greater(similarity, Dec(4, 10)),
        confidence |-> similarity,
        method |-> "embeddings"]

\* An embedding stage without its catch: the error leaves the function.
checkRelevanceMiniLM_catch_rethrow(message) == Thrown(message)

\* checkRelevanceMiniLM, lines 67-70: the value returned from the catch.
checkRelevanceMiniLM_catch(message) ==
    [relevant |-> FALSE, confidence |-> Dec(0, 1), method |-> "embeddings",
     error |-> message]

\* What openai.chat.completions.create may resolve to: a message whose
\* content is a text, or whose content is null.
Completion(text) == [hasContent |-> TRUE, content |-> text]
NullCompletion == [hasContent |-> FALSE, content |-> <<>>]

JudgeTexts ==
    { <<"Y", "e", "s">>, <<"N", "o">>, <<"Y", "E", "S">>, <<>> }

WebsiteTexts ==
    { <<"a", ",", " ", "b">>, <<" ", "a", " ", ",", ",">>, <<>> }

\* A judge that fails open: its catch returns a relevant verdict.
checkRelevanceOpenAI_catch_failOpen(message) ==
    [relevant |-> TRUE, confidence |-> Dec(0, 1), method |-> "gpt-4o-mini",
     error |-> message]

\* A judge without its catch: the error leaves the function.
checkRelevanceOpenAI_catch_rethrow(message) == Thrown(message)

\* checkRelevanceOpenAI, lines 100-103: the value returned from the catch.
checkRelevanceOpenAI_catch(message) ==
    [relevant |-> FALSE, confidence |-> Dec(0, 1), method |-> "gpt-4o-mini",
     error |-> message]

\* A judge wrapper that looks for 'yes' without lower-casing the response.
checkRelevanceOpenAI_return_caseSensitive(completion) ==
    IF ~completion.hasContent
    THEN checkRelevanceOpenAI_catch("TypeError")
    ELSE LET response == completion.content
             isRelevant == includes(response, <<"y", "e", "s">>)
         IN [relevant |-> isRelevant,
             confidence |-> Dec(8, 10),
             method |-> "gpt-4o-mini",
             reasoning |-> response]

\* checkRelevanceOpenAI, lines 91-99: the value returned once the completion
\* has resolved (null.toLowerCase() throws a TypeError into the catch).
checkRelevanceOpenAI_return(completion) ==
    IF ~completion.hasContent
    THEN checkRelevanceOpenAI_catch("TypeError")
    ELSE LET response == completion.content
             isRelevant == includes(toLowerCase(response), <<"y", "e", "s">>)
         IN [relevant |-> isRelevant,
             confidence |-> Dec(8, 10),
             method |-> "gpt-4o-mini",
             reasoning |-> response]

\* A truthy error message.
HasError(result) == "error" \in DOMAIN result /\ result.error # ""

\* A fallback on every negative embedding verdict (similarity <= 0.4).
checkTask_fallback_onNegative(embeddingsResult) ==
    HasError(embeddingsResult) \/ ~embeddingsResult.relevant

\* A fallback on errors only: every scored pair is answered by the
\* embedding stage.
checkTask_fallback_onError(embeddingsResult) == HasError(embeddingsResult)

\* checkTask, line 175: whether the request falls back to OpenAI.
checkTask_fallback(embeddingsResult) ==
    HasError(embeddingsResult) \/ Less(embeddingsResult.confidence, Dec(3, 10))

\* checkTask, lines 191-200: the 200 response (JSON drops a reasoning that
\* is undefined; the timestamp is left out of the model).
checkTask_json(finalResult, body) ==
    LET common == [success |-> TRUE,
                   relevant |-> finalResult.relevant,
                   confidence |-> finalResult.confidence,
                   method |-> finalResult.method,
                   goal |-> body.goalNeeded,
                   tab |-> body.titleTab]
    IN [status |-> 200,
        json |-> IF "reasoning" \in DOMAIN finalResult
                 THEN [f \in DOMAIN common \cup {"reasoning"} |->
                          IF f = "reasoning" THEN finalResult.reasoning ELSE common[f]]
                 ELSE common]

\* createInitialTask, lines 143-154: the 200 response.
createInitialTask_json(content, body) ==
    LET websites == filterNonEmpty(
                        [i \in 1..Len(split(content, ",")) |->
                            trim(split(content, ",")[i])])
    IN [status |-> 200,
        json |-> [success |-> TRUE,
                  websites |-> websites,
                  count |-> Len(websites),
                  goal |-> body.taskGoal]]

\* The 500 response of a handler's catch.
InternalError(what) == [status |-> 500, json |-> [error |-> what]]

(***************************************************************************)
(* The state: of the API process and of the background script.            *)
(***************************************************************************)
VARIABLES
    extractor,      \* taskController.js:12: "undefined" or "pipeline"
    initPc,         \* the initialising async function of lines 13-23:
                    \*   "awaiting" pipeline(), "done" or "caught"
    pipelineCalls,  \* how many times pipeline() has been called
    req,            \* per request: the handler's position and its locals
    bg,             \* background.js: the fields of the FocusFlowBackground object
    storage,        \* chrome.storage.local
    loads,          \* the results of the chrome.storage.local.get calls of
                    \*   loadState whose callbacks have not run yet, oldest first
    checks,         \* per checkWebsiteRelevance call: its position and locals
    now,            \* the clock, in minutes
    persisted,      \* chrome.storage.local when the background script was
                    \*   started (history)
    reply,          \* the argument of the latest sendResponse, Null before
    alarm,          \* the name of the latest alarm delivered, "none" before
    startups,       \* how many times handleStartup has run (history)
    focusTimer,     \* timer.js: the fields of window.focusTimer
    stats,          \* dashboard.js: window.dashboardManager.stats
    localStorage,   \* the localStorage of the dashboard page
    chromeLocal,    \* chrome.storage.local as the dashboard page uses it: the
                    \*   timerState item and the onChanged events not yet
                    \*   delivered to this page, oldest first
    view,           \* what the page shows: "dashboard" or "timer"
    call,           \* the last call of a function on its own: its arguments and result
    cache,          \* performance.js: the Map of cacheManager, per key its
                    \*   entry or Null
    creq,           \* per request to a route behind cacheMiddleware: its
                    \*   position, the request and the response
    clock           \* Date.now(), in minutes

apiVars == <<extractor, initPc, pipelineCalls, req>>

extVars == <<bg, storage, loads, checks, now, persisted, reply, alarm, startups>>

pageVars == <<focusTimer, stats, localStorage, chromeLocal, view>>

cacheVars == <<cache, creq, clock>>

vars ==
    <<extractor, initPc, pipelineCalls, req, bg, storage, loads, checks, now, persisted,
      reply, alarm, startups, focusTimer, stats, localStorage, chromeLocal, view, call,
      cache, creq, clock>>

\* A request that has not arrived yet.
IdleRequest ==
    [pc |-> "idle",            \* idle, await_extractor, scored, await_openai,
                               \* await_completion, done
     route |-> "none",         \* "/check" or "/initial"
     body |-> <<>>,
     initAtArrival |-> "none", \* initPc when the handler started (history)
     embeddings |-> <<>>,      \* what the extractor resolved to (history)
     completion |-> Null,      \* what the completion settled to (history):
                               \*   a completion, or Rejected for a rejection
     embeddingsResult |-> Null,
     finalResult |-> Null,
     extractorCalls |-> 0,     \* calls of extractor(...) made for the request
     openaiCalls |-> 0,        \* calls of openai.chat.completions.create
     res |-> <<>>]             \* the responses sent, in order

\* The module has been evaluated: extractor is declared and the async
\* function of lines 13-23 has called pipeline() and awaits it; the server
\* listens.
ApiInit ==
    /\ extractor = "undefined"
    /\ initPc = "awaiting"
    /\ pipelineCalls = 1
    /\ req = [r \in Reqs |-> IdleRequest]

\* Line 15: pipeline() resolves and extractor is assigned.
PipelineResolves ==
    /\ initPc = "awaiting"
    /\ extractor' = "pipeline"
    /\ initPc' = "done"
    /\ UNCHANGED <<pipelineCalls, req>>
    /\ UNCHANGED <<extVars, pageVars, call, cacheVars>>

\* Lines 20-22: pipeline() rejects; the error is logged and extractor stays
\* undefined for the life of the process.
PipelineRejects ==
    /\ initPc = "awaiting"
    /\ initPc' = "caught"
    /\ UNCHANGED <<extractor, pipelineCalls, req>>
    /\ UNCHANGED <<extVars, pageVars, call, cacheVars>>

\* An embedding stage that waits for the load instead of throwing: every
\* call reaches the extractor.
checkRelevanceMiniLM_call_waits(r) ==
    [r EXCEPT !.pc = "await_extractor",
              !.extractorCalls = @ + 1]

\* checkRelevanceMiniLM, lines 47-56, up to its first await: the record of
\* request r after the call.  An extractor that is not set throws into the
\* catch, and the function returns at once.
checkRelevanceMiniLM_call(r) ==
    IF extractor = "undefined"
    THEN [r EXCEPT !.pc = "scored",
                   !.embeddingsResult = checkRelevanceMiniLM_catch(NotInitialized)]
    ELSE [r EXCEPT !.pc = "await_extractor",
                   !.extractorCalls = @ + 1]

\* checkTask, lines 164-172: POST /check arrives with a body.
checkTask(r, body) ==
    /\ req[r].pc = "idle"
    /\ \A q \in 1..(r - 1) : req[q].pc # "idle"
    /\ LET validation == validateRequest(body, <<"titleTab", "goalNeeded">>)
           arrived == [req[r] EXCEPT !.route = "/check", !.body = body,
                                     !.initAtArrival = initPc]
       IN req' = [req EXCEPT ![r] =
                    IF validation # Null
                    THEN [arrived EXCEPT !.pc = "done", !.res = Append(@, validation)]
                    ELSE checkRelevanceMiniLM_call(arrived)]
    /\ UNCHANGED <<extractor, initPc, pipelineCalls>>
    /\ UNCHANGED <<extVars, pageVars, call, cacheVars>>

\* checkRelevanceMiniLM, lines 53-66: the extractor resolves.
ExtractorResolves(r, embeddings) ==
    /\ req[r].pc = "await_extractor"
    /\ req' = [req EXCEPT ![r] =
                 [@ EXCEPT !.pc = "scored",
                           !.embeddings = embeddings,
                           !.embeddingsResult = checkRelevanceMiniLM_return(embeddings)]]
    /\ UNCHANGED <<extractor, initPc, pipelineCalls>>
    /\ UNCHANGED <<extVars, pageVars, call, cacheVars>>

\* checkRelevanceMiniLM, lines 67-70: the extractor rejects.
ExtractorRejects(r, message) ==
    /\ req[r].pc = "await_extractor"
    /\ req' = [req EXCEPT ![r] =
                 [@ EXCEPT !.pc = "scored",
                           !.embeddingsResult = checkRelevanceMiniLM_catch(message)]]
    /\ UNCHANGED <<extractor, initPc, pipelineCalls>>
    /\ UNCHANGED <<extVars, pageVars, call, cacheVars>>

\* checkTask, lines 201-207: an exception inside the try is answered 500.
checkTask_catch(r) ==
    [r EXCEPT !.pc = "done",
              !.res = Append(@, InternalError("Failed to check task relevance"))]

\* A response that always carries the embeddings result.
checkTask_respond_embeddings(r, finalResult) ==
    [r EXCEPT !.pc = "done",
              !.finalResult = r.embeddingsResult,
              !.res = Append(@, checkTask_json(r.embeddingsResult, r.body))]

\* checkTask, lines 191-200: res.json of the final result (an exception
\* thrown by checkRelevanceOpenAI goes to the catch instead).
checkTask_respond(r, finalResult) ==
    IF IsThrown(finalResult)
    THEN checkTask_catch(r)
    ELSE [r EXCEPT !.pc = "done",
                   !.finalResult = finalResult,
                   !.res = Append(@, checkTask_json(finalResult, r.body))]

\* A handler that keeps the embeddings result in a variable all requests
\* share: it reads what the first request stored.
checkTask_continue_shared(r) ==
    /\ req[r].pc = "scored"
    /\ LET shared == IF req[1].embeddingsResult # Null
                     THEN req[1].embeddingsResult
                     ELSE req[r].embeddingsResult
       IN req' = [req EXCEPT ![r] =
                    IF checkTask_fallback(shared)
                    THEN [@ EXCEPT !.pc = "await_openai", !.openaiCalls = @ + 1]
                    ELSE checkTask_respond(@, shared)]
    /\ UNCHANGED <<extractor, initPc, pipelineCalls>>
    /\ UNCHANGED <<extVars, pageVars, call, cacheVars>>

\* checkTask, lines 174-200, after checkRelevanceMiniLM has returned: fall
\* back to OpenAI (checkRelevanceOpenAI runs to its await) or answer with
\* the embeddings result.
checkTask_continue(r) ==
    /\ req[r].pc = "scored"
    /\ req' = [req EXCEPT ![r] =
                 IF IsThrown(@.embeddingsResult)
                 THEN checkTask_catch(@)
                 ELSE IF checkTask_fallback(@.embeddingsResult)
                 THEN [@ EXCEPT !.pc = "await_openai", !.openaiCalls = @ + 1]
                 ELSE checkTask_respond(@, @.embeddingsResult)]
    /\ UNCHANGED <<extractor, initPc, pipelineCalls>>
    /\ UNCHANGED <<extVars, pageVars, call, cacheVars>>

\* checkRelevanceOpenAI, lines 91-99, then checkTask, lines 177-200: the
\* completion resolves.
OpenAIResolves(r, completion) ==
    /\ req[r].pc = "await_openai"
    /\ req' = [req EXCEPT ![r] =
                 checkTask_respond([@ EXCEPT !.completion = completion],
                                   checkRelevanceOpenAI_return(completion))]
    /\ UNCHANGED <<extractor, initPc, pipelineCalls>>
    /\ UNCHANGED <<extVars, pageVars, call, cacheVars>>

\* A judge call that is made again after a rejection.
OpenAIRejects_retry(r, message) ==
    /\ req[r].pc = "await_openai"
    /\ req[r].openaiCalls < 3
    /\ req' = [req EXCEPT ![r] = [@ EXCEPT !.openaiCalls = @ + 1]]
    /\ UNCHANGED <<extractor, initPc, pipelineCalls>>
    /\ UNCHANGED <<extVars, pageVars, call, cacheVars>>

\* checkRelevanceOpenAI, lines 100-103, then checkTask, lines 177-200: the
\* completion rejects.
OpenAIRejects(r, message) ==
    /\ req[r].pc = "await_openai"
    /\ req' = [req EXCEPT ![r] =
                 checkTask_respond([@ EXCEPT !.completion = Rejected],
                                   checkRelevanceOpenAI_catch(message))]
    /\ UNCHANGED <<extractor, initPc, pipelineCalls>>
    /\ UNCHANGED <<extVars, pageVars, call, cacheVars>>

\* createInitialTask, lines 120-141: POST /initial arrives with a body.
createInitialTask(r, body) ==
    /\ req[r].pc = "idle"
    /\ \A q \in 1..(r - 1) : req[q].pc # "idle"
    /\ LET validation == validateRequest(body, <<"taskGoal">>)
           arrived == [req[r] EXCEPT !.route = "/initial", !.body = body,
                                     !.initAtArrival = initPc]
       IN req' = [req EXCEPT ![r] =
                    IF validation # Null
                    THEN [arrived EXCEPT !.pc = "done", !.res = Append(@, validation)]
                    ELSE [arrived EXCEPT !.pc = "await_completion",
                                         !.openaiCalls = @ + 1]]
    /\ UNCHANGED <<extractor, initPc, pipelineCalls>>
    /\ UNCHANGED <<extVars, pageVars, call, cacheVars>>

\* createInitialTask, lines 143-154: the completion resolves (a null content
\* throws into the catch of lines 155-160).
InitialResolves(r, completion) ==
    /\ req[r].pc = "await_completion"
    /\ req' = [req EXCEPT ![r] =
                 [@ EXCEPT !.pc = "done",
                           !.completion = completion,
                           !.res = Append(@,
                               IF completion.hasContent
                               THEN createInitialTask_json(completion.content, req[r].body)
                               ELSE InternalError("Failed to generate task websites"))]]
    /\ UNCHANGED <<extractor, initPc, pipelineCalls>>
    /\ UNCHANGED <<extVars, pageVars, call, cacheVars>>

\* createInitialTask, lines 155-160: the completion rejects.
InitialRejects(r) ==
    /\ req[r].pc = "await_completion"
    /\ req' = [req EXCEPT ![r] =
                 [@ EXCEPT !.pc = "done",
                           !.completion = Rejected,
                           !.res = Append(@, InternalError("Failed to generate task websites"))]]
    /\ UNCHANGED <<extractor, initPc, pipelineCalls>>
    /\ UNCHANGED <<extVars, pageVars, call, cacheVars>>

CheckBodies == BodiesOver({"titleTab", "goalNeeded"})

InitialBodies == BodiesOver({"taskGoal"})

Completions(texts) == {Completion(t) : t \in texts} \cup {NullCompletion}

ApiNext ==
    \/ PipelineResolves
    \/ PipelineRejects
    \/ \E r \in Reqs, body \in CheckBodies : checkTask(r, body)
    \/ \E r \in Reqs, embeddings \in EmbeddingPairs : ExtractorResolves(r, embeddings)
    \/ \E r \in Reqs, message \in ErrorMessages : ExtractorRejects(r, message)
    \/ \E r \in Reqs : checkTask_continue(r)
    \/ \E r \in Reqs, completion \in Completions(JudgeTexts) : OpenAIResolves(r, completion)
    \/ \E r \in Reqs, message \in ErrorMessages : OpenAIRejects(r, message)
    \/ \E r \in Reqs, body \in InitialBodies : createInitialTask(r, body)
    \/ \E r \in Reqs, completion \in Completions(WebsiteTexts) : InitialResolves(r, completion)
    \/ \E r \in Reqs : InitialRejects(r)

(***************************************************************************)
(* background.js: the extension's background script.                       *)
(*                                                                         *)
(* A URL or a website is a text whose symbols are whole words (a scheme, a *)
(* host, a path), so url.includes(website) is includes on symbols.  The    *)
(* script keeps no record of what a tab shows: a page a tab has loaded is  *)
(* an input of handleTabUpdate, and a redirect is the call of              *)
(* chrome.tabs.update, kept with the check that made it.  Times            *)
(* (lastUpdated, the timestamp of tabDetails), notifications and the       *)
(* argument of sendResponse are left out.                                  *)
(***************************************************************************)
\* Calls of checkWebsiteRelevance in one run.
NumChecks == 1

\* Open tabs.
NumTabs == 1

\* sendData messages that activate focus mode in one run.
MaxSessions == 1

Checks == 1..NumChecks

Tabs == 1..NumTabs

\* Lines 4-10.
DefaultAllowedWebsites ==
    << <<"google.com">>, <<"notion.so">>, <<"chrome://">>, <<"chrome-extension://">>,
       <<"asana.com">>, <<"perplexity.ai">>, <<"chatgpt.com">>, <<"wikipedia.org">>,
       <<"stackoverflow.com">>, <<"github.com">>, <<"khanacademy.org">>, <<"claude.ai">>,
       <<"youtube.com/watch?v=0b0axfyJ4oo">>, <<"gmail.com">>, <<"calendar.google.com">>,
       <<"drive.google.com">>, <<"docs.google.com">>, <<"sheets.google.com">>,
       <<"slides.google.com">> >>

\* new Date().toISOString(): the time, as the minute it names.
Timestamp == [iso |-> now]

\* Lines 3-25: the fields the constructor sets.
Constructed ==
    [allowedWebsites |-> DefaultAllowedWebsites,
     taskSpecificWebsites |-> <<>>,
     currentTask |-> <<>>,
     savedBlockLinks |-> <<>>,
     isFocusModeActive |-> FALSE,
     focusStartTime |-> Null,
     blockedSites |-> <<>>,
     productivityStats |-> [totalFocusTime |-> 0, sitesBlocked |-> 0, focusSessions |-> 0]]

\* A checkWebsiteRelevance call that has not been made.
UnusedCheck == [pc |-> "unused", body |-> <<>>]

\* Lines 351-355: the arguments of chrome.tabs.update in blockWebsite.
BlockedPage(tabId, tabURL, task) ==
    [tabId |-> tabId,
     url |-> <<"chrome-extension://", "files/blocked.html">>,
     query |-> [website |-> tabURL, task |-> task]]

\* Lines 3-32 and 469, in a browser whose storage holds stored: the object
\* exists, init() has run: loadState has asked the storage, which answers a
\* get with what it holds when the get is made, and the callback is
\* outstanding; the listeners and the alarms are registered.
Started(stored, time) ==
    /\ bg = Constructed
    /\ storage = stored
    /\ persisted = stored
    /\ loads = <<stored>>
    /\ checks = [c \in Checks |-> UnusedCheck]
    /\ now = time
    /\ reply = Null
    /\ alarm = "none"
    /\ startups = 0

\* The script started for the first time: nothing is stored.
ExtInit == Started(<<>>, 0)

\* Lines 424-431: which stored values the callback copies.
loadState_copies(key, value) ==
    CASE key = "currentTask" -> value # <<>>
      [] key = "focusStartTime" -> value # Null
      [] OTHER -> TRUE

\* Lines 423-432: the fields after the callback of loadState ran on result.
loadState_callback(this, result) ==
    [key \in DOMAIN this |->
        IF key \in DOMAIN result /\ loadState_copies(key, result[key])
        THEN result[key]
        ELSE this[key]]

\* Lines 435-450: what saveState writes to the storage.
saveState(this) ==
    [key \in {"allowedWebsites", "taskSpecificWebsites", "currentTask", "savedBlockLinks",
              "isFocusModeActive", "focusStartTime", "blockedSites", "productivityStats"}
        |-> this[key]]

\* Lines 418-433: the callback of the oldest outstanding loadState runs.
LoadStateCallback ==
    /\ loads # <<>>
    /\ loads' = Tail(loads)
    /\ bg' = loadState_callback(bg, Head(loads))
    /\ UNCHANGED <<storage, checks>>
    /\ UNCHANGED <<now, persisted, reply, alarm, startups>>
    /\ UNCHANGED <<apiVars, pageVars, call, cacheVars>>

\* website.replace(/^"|"$/g, '')
stripQuotes(s) ==
    LET a == IF s # <<>> /\ Head(s) = "\"" THEN Tail(s) ELSE s
    IN IF a # <<>> /\ a[Len(a)] = "\"" THEN SubSeq(a, 1, Len(a) - 1) ELSE a

\* Lines 185-188.
parseWebsites(receivedArray) ==
    filterNonEmpty(
        [i \in 1..Len(split(receivedArray, ",")) |->
            stripQuotes(trim(split(receivedArray, ",")[i]))])

\* The website list and the task a page of the extension may send.
ReceivedArrays == {<<>>, <<"\"", "docs.dev", "\"", ",", " ", ",">>}

TaskGoals == {<<>>, <<"t">>}

\* The data of a sendData message: an object that may lack either field.
SendDataMessages ==
    {<<>>}
    \cup [receivedArray : ReceivedArrays]
    \cup [taskGoal : TaskGoals]
    \cup [receivedArray : ReceivedArrays, taskGoal : TaskGoals]

\* A handler that activates focus mode before it validates the data.
handleSendData_activatesFirst(data) ==
    /\ IF Falsy(data, "receivedArray") \/ Falsy(data, "taskGoal")
       THEN /\ reply' = [error |-> "Missing required data"]
            /\ bg' = [bg EXCEPT !.isFocusModeActive = TRUE]
            /\ UNCHANGED storage
       ELSE /\ bg.productivityStats.focusSessions < MaxSessions
            /\ bg' = [bg EXCEPT !.taskSpecificWebsites = parseWebsites(data.receivedArray),
                                !.currentTask = data.taskGoal,
                                !.isFocusModeActive = TRUE,
                                !.focusStartTime = Timestamp,
                                !.productivityStats.focusSessions = @ + 1]
            /\ storage' = saveState(bg')
            /\ reply' = [success |-> TRUE, message |-> "Focus mode activated"]
    /\ UNCHANGED <<loads, checks>>
    /\ UNCHANGED <<now, persisted, alarm, startups>>
    /\ UNCHANGED <<apiVars, pageVars, call, cacheVars>>

\* Lines 175-216, with updateProductivityStats (lines 373-376), which sets a
\* time and saves the state.  The error thrown for a missing field is
\* caught at line 212 and its message is the answer.
handleSendData(data) ==
    /\ IF Falsy(data, "receivedArray") \/ Falsy(data, "taskGoal")
       THEN /\ reply' = [error |-> "Missing required data"]
            /\ UNCHANGED <<bg, storage>>
       ELSE /\ bg.productivityStats.focusSessions < MaxSessions
            /\ bg' = [bg EXCEPT !.taskSpecificWebsites = parseWebsites(data.receivedArray),
                                !.currentTask = data.taskGoal,
                                !.isFocusModeActive = TRUE,
                                !.focusStartTime = Timestamp,
                                !.productivityStats.focusSessions = @ + 1]
            /\ storage' = saveState(bg')
            /\ reply' = [success |-> TRUE, message |-> "Focus mode activated"]
    /\ UNCHANGED <<loads, checks>>
    /\ UNCHANGED <<now, persisted, alarm, startups>>
    /\ UNCHANGED <<apiVars, pageVars, call, cacheVars>>

\* Lines 218-231: data is the message's data, an object that may lack
\* website.
handleAppendBlockedLink(data) ==
    /\ IF ~Falsy(data, "website")
          /\ \A i \in 1..Len(bg.savedBlockLinks) : bg.savedBlockLinks[i] # data.website
       THEN /\ bg' = [bg EXCEPT !.savedBlockLinks = Append(@, data.website)]
            /\ storage' = saveState(bg')
            /\ reply' = [success |-> TRUE, message |-> "Website added to allowed list"]
       ELSE /\ reply' = [success |-> FALSE, message |-> "Website already in list"]
            /\ UNCHANGED <<bg, storage>>
    /\ UNCHANGED <<loads, checks>>
    /\ UNCHANGED <<now, persisted, alarm, startups>>
    /\ UNCHANGED <<apiVars, pageVars, call, cacheVars>>

\* Lines 233-239.
handleStartFocusMode ==
    /\ bg' = [bg EXCEPT !.isFocusModeActive = TRUE, !.focusStartTime = Timestamp]
    /\ storage' = saveState(bg')
    /\ reply' = [success |-> TRUE]
    /\ UNCHANGED <<loads, checks>>
    /\ UNCHANGED <<now, persisted, alarm, startups>>
    /\ UNCHANGED <<apiVars, pageVars, call, cacheVars>>

\* Lines 241-247.
handleStopFocusMode ==
    /\ bg' = [bg EXCEPT !.isFocusModeActive = FALSE, !.focusStartTime = Null]
    /\ storage' = saveState(bg')
    /\ reply' = [success |-> TRUE]
    /\ UNCHANGED <<loads, checks>>
    /\ UNCHANGED <<now, persisted, alarm, startups>>
    /\ UNCHANGED <<apiVars, pageVars, call, cacheVars>>

\* Lines 300-302.
isWebsiteAllowed(this, url) ==
    \E i \in 1..Len(this.allowedWebsites) : includes(url, this.allowedWebsites[i])

\* Lines 304-306.
isTaskSpecificWebsite(this, url) ==
    \E i \in 1..Len(this.taskSpecificWebsites) : includes(url, this.taskSpecificWebsites[i])

\* The pages a tab may load.
Urls ==
    { <<"https://", "github.com", "/">>,
      <<"https://", "docs.dev", "/">>,
      <<"https://", "news.com", "/">> }

Titles == {<<>>, <<"t">>}

\* Lines 315-319: the body of the request to /api/check.
checkWebsiteRelevance_body(this, tabDetails) ==
    [titleTab |-> tabDetails.tabTitle,
     URLTab |-> tabDetails.tabURL,
     goalNeeded |-> this.currentTask]

\* What POST /api/check can answer to a body: checkTask's 400, its verdicts
\* (of the embedding stage, of the judge, the default deny) and its 500.
ApiAnswers(body) ==
    LET validation == validateRequest(body, <<"titleTab", "goalNeeded">>)
    IN IF validation # Null
       THEN {validation}
       ELSE {checkTask_json(checkRelevanceMiniLM_return(e), body) :
                e \in {p \in EmbeddingPairs :
                          ~checkTask_fallback(checkRelevanceMiniLM_return(p))}}
            \cup {checkTask_json(checkRelevanceOpenAI_return(c), body) :
                     c \in Completions(JudgeTexts)}
            \cup {checkTask_json(checkRelevanceOpenAI_catch(m), body) :
                     m \in ErrorMessages}
            \cup {InternalError("Failed to check task relevance")}

\* The first unused check, when c is it.
IsFreeCheck(c) ==
    /\ checks[c].pc = "unused"
    /\ \A d \in 1..(c - 1) : checks[d].pc # "unused"

\* A tab handler without the test of the task-specific list.
handleTabUpdate_skipsTaskList(tabId, url, title) ==
    /\ IF ~bg.isFocusModeActive \/ bg.currentTask = <<>>
       THEN UNCHANGED checks
       ELSE IF isWebsiteAllowed(bg, url)
       THEN UNCHANGED checks
       ELSE LET tabDetails == [tabTitle |-> title, tabURL |-> url]
            IN \E c \in Checks :
                  /\ IsFreeCheck(c)
                  /\ checks' = [checks EXCEPT ![c] =
                        [pc |-> "await_fetch",
                         tabId |-> tabId,
                         tabDetails |-> tabDetails,
                         body |-> checkWebsiteRelevance_body(bg, tabDetails),
                         response |-> Null,
                         failure |-> "none",
                         redirect |-> Null]]
    /\ UNCHANGED <<bg, storage, loads>>
    /\ UNCHANGED <<now, persisted, reply, alarm, startups>>
    /\ UNCHANGED <<apiVars, pageVars, call, cacheVars>>

\* Lines 51-55 and 264-291: a tab finished loading a page.  When the page is
\* neither allowed nor task-specific, checkWebsiteRelevance (lines 308-320)
\* runs to its fetch.
handleTabUpdate(tabId, url, title) ==
    /\ IF ~bg.isFocusModeActive \/ bg.currentTask = <<>>
       THEN UNCHANGED checks
       ELSE IF isWebsiteAllowed(bg, url)
       THEN UNCHANGED checks
       ELSE IF isTaskSpecificWebsite(bg, url)
       THEN UNCHANGED checks
       ELSE LET tabDetails == [tabTitle |-> title, tabURL |-> url]
            IN \E c \in Checks :
                  /\ IsFreeCheck(c)
                  /\ checks' = [checks EXCEPT ![c] =
                        [pc |-> "await_fetch",
                         tabId |-> tabId,
                         tabDetails |-> tabDetails,
                         body |-> checkWebsiteRelevance_body(bg, tabDetails),
                         response |-> Null,
                         failure |-> "none",
                         redirect |-> Null]]
    /\ UNCHANGED <<bg, storage, loads>>
    /\ UNCHANGED <<now, persisted, reply, alarm, startups>>
    /\ UNCHANGED <<apiVars, pageVars, call, cacheVars>>

\* Lines 343-362: blockWebsite, called from check c as it ends; settled is
\* the record of the check at that point.
blockWebsite(c, settled) ==
    LET tabId == settled.tabId
        tabDetails == settled.tabDetails
        blockedUrl == BlockedPage(tabId, tabDetails.tabURL, bg.currentTask)
    IN /\ bg' = [bg EXCEPT !.productivityStats.sitesBlocked = @ + 1,
                           !.blockedSites = Append(@, tabDetails)]
       /\ storage' = saveState(bg')
       /\ checks' = [checks EXCEPT ![c] =
                        [settled EXCEPT !.pc = "done", !.redirect = blockedUrl]]

\* Lines 336-340: the fetch rejects (the API cannot be reached).
FetchRejects(c) ==
    /\ checks[c].pc = "await_fetch"
    /\ blockWebsite(c, [checks[c] EXCEPT !.failure = "fetch"])
    /\ UNCHANGED loads
    /\ UNCHANGED <<now, persisted, reply, alarm, startups>>
    /\ UNCHANGED <<apiVars, pageVars, call, cacheVars>>

\* response.ok
IsOk(response) == response.status >= 200 /\ response.status <= 299

\* A check that reads the body of every response, ok or not.
FetchResolves_ignoresStatus(c, response) ==
    /\ checks[c].pc = "await_fetch"
    /\ checks' = [checks EXCEPT ![c].pc = "await_json", ![c].response = response]
    /\ UNCHANGED <<bg, storage, loads>>
    /\ UNCHANGED <<now, persisted, reply, alarm, startups>>
    /\ UNCHANGED <<apiVars, pageVars, call, cacheVars>>

\* Lines 322-326: the fetch resolves with the API's response.  A response
\* that is not ok throws into the catch of lines 336-340.
FetchResolves(c, response) ==
    /\ checks[c].pc = "await_fetch"
    /\ IF ~IsOk(response)
       THEN blockWebsite(c, [checks[c] EXCEPT !.response = response])
       ELSE /\ checks' = [checks EXCEPT ![c].pc = "await_json", ![c].response = response]
            /\ UNCHANGED <<bg, storage>>
    /\ UNCHANGED loads
    /\ UNCHANGED <<now, persisted, reply, alarm, startups>>
    /\ UNCHANGED <<apiVars, pageVars, call, cacheVars>>

\* Lines 326-334: response.json() resolves.
JsonResolves(c) ==
    /\ checks[c].pc = "await_json"
    /\ LET data == checks[c].response.json
       IN IF "relevant" \in DOMAIN data /\ data.relevant = FALSE
          THEN blockWebsite(c, checks[c])
          ELSE /\ checks' = [checks EXCEPT ![c].pc = "done"]
               /\ UNCHANGED <<bg, storage>>
    /\ UNCHANGED loads
    /\ UNCHANGED <<now, persisted, reply, alarm, startups>>
    /\ UNCHANGED <<apiVars, pageVars, call, cacheVars>>

\* Lines 336-340: response.json() rejects (the body cannot be read).
JsonRejects(c) ==
    /\ checks[c].pc = "await_json"
    /\ blockWebsite(c, [checks[c] EXCEPT !.failure = "json"])
    /\ UNCHANGED loads
    /\ UNCHANGED <<now, persisted, reply, alarm, startups>>
    /\ UNCHANGED <<apiVars, pageVars, call, cacheVars>>

ExtNext ==
    \/ LoadStateCallback
    \/ \E data \in SendDataMessages : handleSendData(data)
    \/ handleStartFocusMode
    \/ handleStopFocusMode
    \/ \E tabId \in Tabs, url \in Urls, title \in Titles : handleTabUpdate(tabId, url, title)
    \/ \E c \in Checks : FetchRejects(c)
    \/ \E c \in Checks : \E response \in ApiAnswers(checks[c].body) : FetchResolves(c, response)
    \/ \E c \in Checks : JsonResolves(c)
    \/ \E c \in Checks : JsonRejects(c)

\* The script with the user also adding websites from the popup.
LinksNext ==
    \/ ExtNext
    \/ \E data \in {<<>>, [website |-> <<"news.com">>]} : handleAppendBlockedLink(data)

(***************************************************************************)
(* background.js: the script started in a browser that has run it before,  *)
(* the browser's startup event and the periodic alarms.                    *)
(***************************************************************************)
\* Line 458: focus mode is stopped when it is older than this, in minutes.
AutoStopMinutes == 240

\* Lines 380-381: the blocked sites cleanupOldData keeps.
KeepLast == 100

\* What saveState left in the storage in an earlier run: a sendData at
\* minute 0 for the task "old", blocked pages (their tabDetails, lines
\* 271-275), and focus mode still active or stopped since.
Earlier(active, blocked) ==
    saveState([Constructed EXCEPT
        !.taskSpecificWebsites = << <<"docs.dev">> >>,
        !.currentTask = <<"old">>,
        !.isFocusModeActive = active,
        !.focusStartTime = IF active THEN [iso |-> 0] ELSE Null,
        !.blockedSites =
            [i \in 1..blocked |->
                [tabTitle |-> <<"t">>, tabURL |-> <<"https://", "news.com", "/">>]],
        !.productivityStats.sitesBlocked = blocked,
        !.productivityStats.focusSessions = 1])

PersistedStates ==
    {<<>>, Earlier(TRUE, 0), Earlier(FALSE, 0), Earlier(FALSE, KeepLast + 1)}

\* The script is started in a browser that may have run it before, at the
\* minute at which a focus mode started at minute 0 is just not, or just,
\* older than AutoStopMinutes.
BgInit ==
    \E stored \in PersistedStates, time \in {AutoStopMinutes, AutoStopMinutes + 1} :
        Started(stored, time)

\* Lines 453-458: the test of checkFocusModeStatus.
checkFocusModeStatus_expired(this) ==
    /\ this.isFocusModeActive
    /\ this.focusStartTime # Null
    /\ now - this.focusStartTime.iso > AutoStopMinutes

\* Lines 63-65 and 117-121: the browser started.  loadState asks the
\* storage, then checkFocusModeStatus (lines 452-465) runs on the fields as
\* they are, before any callback.
handleStartup ==
    /\ startups = 0
    /\ startups' = startups + 1
    /\ loads' = Append(loads, storage)
    /\ IF checkFocusModeStatus_expired(bg)
       THEN /\ bg' = [bg EXCEPT !.isFocusModeActive = FALSE, !.focusStartTime = Null]
            /\ storage' = saveState(bg')
       ELSE UNCHANGED <<bg, storage>>
    /\ UNCHANGED <<checks, now, persisted, reply, alarm>>
    /\ UNCHANGED <<apiVars, pageVars, call, cacheVars>>

\* array.slice(-n)
sliceLast(array, n) ==
    IF Len(array) > n THEN SubSeq(array, Len(array) - n + 1, Len(array)) ELSE array

\* Lines 378-389: the fields after cleanupOldData, which then saves them.
cleanupOldData(this) ==
    IF Len(this.blockedSites) > KeepLast
    THEN [this EXCEPT !.blockedSites = sliceLast(@, KeepLast)]
    ELSE this

\* Lines 73-79: the listener of chrome.alarms.onAlarm, with
\* updateProductivityStats (lines 373-376).  The alarms are those that
\* setupAlarms creates (lines 70-71).
onAlarm(name) ==
    /\ alarm' = name
    /\ IF name = "updateStats"
       THEN /\ bg' = bg
            /\ storage' = saveState(bg')
       ELSE IF name = "updateStats"
       THEN /\ bg' = cleanupOldData(bg)
            /\ storage' = saveState(bg')
       ELSE UNCHANGED <<bg, storage>>
    /\ UNCHANGED <<loads, checks, now, persisted, reply, startups>>
    /\ UNCHANGED <<apiVars, pageVars, call, cacheVars>>

BgNext ==
    \/ LoadStateCallback
    \/ handleStartup
    \/ \E name \in {"updateStats", "cleanupData"} : onAlarm(name)
    \/ \E data \in SendDataMessages : handleSendData(data)
    \/ handleStartFocusMode
    \/ handleStopFocusMode

(***************************************************************************)
(* The pure functions, called on their own: cosineSimilarity, the parsing  *)
(* of the judge's response in checkRelevanceOpenAI, and the parsing of a   *)
(* comma-separated website list in createInitialTask and handleSendData.   *)
(***************************************************************************)
\* Longest vector passed to cosineSimilarity.
MaxVecLen == 2

\* Longest text passed to a parser.
MaxTextLen == 4

SeqsUpTo(alphabet, n) == UNION {[1..k -> alphabet] : k \in 0..n}

\* The arguments of cosineSimilarity: absent, or arrays of numbers.
Components == {-1, 0, 1, 2}

Vectors == {NoVec} \cup {Vec(xs) : xs \in SeqsUpTo(Components, MaxVecLen)}

\* The judge's response texts.
ResponseTexts == SeqsUpTo({"Y", "y", "E", "e", "s", "n"}, MaxTextLen)

\* Comma-separated lists: items, commas, spaces and quote characters.
ListTexts == SeqsUpTo({"a", ",", " ", "\""}, MaxTextLen)

NoCall == [fn |-> "none"]

\* Each run of this machine makes one call.
FnInit == call = NoCall

\* taskController.js, lines 26-32.
Scores(vecA, vecB) ==
    /\ call = NoCall
    /\ call' = [fn |-> "cosineSimilarity", args |-> <<vecA, vecB>>,
                result |-> cosineSimilarity(vecA, vecB)]
    /\ UNCHANGED <<apiVars, extVars, pageVars, cacheVars>>

\* taskController.js, lines 91-103: checkRelevanceOpenAI on a completion.
Judges(completion) ==
    /\ call = NoCall
    /\ call' = [fn |-> "checkRelevanceOpenAI", args |-> <<completion>>,
                result |-> checkRelevanceOpenAI_return(completion)]
    /\ UNCHANGED <<apiVars, extVars, pageVars, cacheVars>>

\* taskController.js, lines 143-146: the websites createInitialTask answers
\* with for a completion's content.
GeneratesWebsites(content) ==
    /\ call = NoCall
    /\ call' = [fn |-> "createInitialTask", args |-> <<content>>,
                result |-> createInitialTask_json(content, [taskGoal |-> <<"t">>]).json.websites]
    /\ UNCHANGED <<apiVars, extVars, pageVars, cacheVars>>

\* background.js, lines 185-188: the websites handleSendData stores.
ParsesWebsites(receivedArray) ==
    /\ call = NoCall
    /\ call' = [fn |-> "handleSendData", args |-> <<receivedArray>>,
                result |-> parseWebsites(receivedArray)]
    /\ UNCHANGED <<apiVars, extVars, pageVars, cacheVars>>

FnNext ==
    \/ \E vecA \in Vectors, vecB \in Vectors : Scores(vecA, vecB)
    \/ \E completion \in Completions(ResponseTexts) : Judges(completion)
    \/ \E content \in ListTexts : GeneratesWebsites(content)
    \/ \E receivedArray \in ListTexts : ParsesWebsites(receivedArray)

(***************************************************************************)
(* files/timer.js and files/dashboard.js: the dashboard page, with both    *)
(* scripts loaded and the elements they look up present.  The page shows   *)
(* the dashboard with its form, or the timer with its buttons, never both. *)
(* A time is a number of seconds; stats.totalFocusTime, which the code      *)
(* keeps in hours with one decimal, is a number of tenths of an hour.      *)
(* Notifications, sounds and the texts of the page are left out.           *)
(***************************************************************************)
\* onChanged events that may wait for delivery to the page.
MaxPending == 2

\* focusSessions from which no further session is started.
MaxFocusSessions == 2

\* totalFocusTime, in tenths of an hour, from which nothing more is credited.
MaxFocusTime == 8

\* Math.round(a / b), for a >= 0 and b > 0.
Round(a, b) == (2 * a + b) \div (2 * b)

\* timer.js lines 3-13.  timer is whether an interval is set.
\* lastStorageUpdate is 1 when the latest tick set it, so that the next tick
\* may come less than STORAGE_UPDATE_INTERVAL after it, and 0 when it is
\* older (or was never set).
NewTimer ==
    [timer |-> FALSE,
     timeLeft |-> 0,
     originalDuration |-> 0,
     breakDuration |-> 0,
     isPaused |-> FALSE,
     isBreak |-> FALSE,
     currentSession |-> 0,
     totalSessions |-> 0,
     lastStorageUpdate |-> 0]

\* dashboard.js lines 4-9.
NewStats ==
    [totalFocusTime |-> 0, tasksCompleted |-> 0, focusSessions |-> 0, productivityScore |-> 85]

\* The page has loaded for the first time: timer.js lines 479-486 with
\* checkExistingTimer finding nothing, dashboard.js line 370 with loadStats
\* (lines 200-208) finding nothing and saving the stats.
PageInit ==
    /\ focusTimer = NewTimer
    /\ stats = NewStats
    /\ localStorage =
          [currentFocusTask |-> Null, focusFlowTimerState |-> Null, focusFlowStats |-> NewStats]
    /\ chromeLocal = [timerState |-> Null, changes |-> <<>>]
    /\ view = "dashboard"

\* timer.js lines 377-384.
getCurrentTask(store) ==
    IF store.currentFocusTask # Null
    THEN store.currentFocusTask.task
    ELSE <<"Focus Session">>

\* timer.js lines 348-358.
saveTimerState(this, taskName) ==
    [taskName |-> taskName,
     duration |-> this.originalDuration,
     breakDuration |-> this.breakDuration,
     timeRemaining |-> this.timeLeft,
     isRunning |-> ~this.isPaused,
     isBreak |-> this.isBreak,
     currentSession |-> this.currentSession,
     totalSessions |-> this.totalSessions]

\* timer.js lines 364-366: chrome.storage.local.set({ timerState }), which
\* the storage reports to the onChanged listeners.
setTimerState(area, timerState) ==
    [timerState |-> timerState,
     changes |-> Append(area.changes, [newValue |-> timerState])]

\* timer.js lines 372-374: chrome.storage.local.remove('timerState'),
\* reported when there was an item to remove.
removeTimerState(area) ==
    [timerState |-> Null,
     changes |-> IF area.timerState # Null
                 THEN Append(area.changes, [newValue |-> Null])
                 ELSE area.changes]

\* Another onChanged event may wait for delivery.
CanWrite == Len(chromeLocal.changes) < MaxPending

\* timer.js lines 96-100.
startTimer(this) ==
    IF ~this.timer /\ ~this.isPaused
    THEN [this EXCEPT !.timer = TRUE, !.lastStorageUpdate = 0]
    ELSE this

\* dashboard.js lines 236-239, without updateStats.
updateFocusTime(st, minutes) ==
    [st EXCEPT !.totalFocusTime = @ + Round(minutes * 10, 60)]

\* timer.js lines 66-94, called with the counts st and the localStorage
\* store its caller leaves.  totalSessions is Math.ceil(originalDuration /
\* (25 * 60)).
startFocusSession(duration, breakDuration, task, st, store) ==
    LET started == [focusTimer EXCEPT
                       !.originalDuration = duration * 60,
                       !.breakDuration = breakDuration * 60,
                       !.timeLeft = duration * 60,
                       !.isBreak = FALSE,
                       !.isPaused = FALSE,
                       !.currentSession = 1,
                       !.totalSessions = (duration * 60 + 25 * 60 - 1) \div (25 * 60)]
        timerState == saveTimerState(started, task)
        counted == [st EXCEPT !.focusSessions = @ + 1]
    IN /\ CanWrite
       /\ focusTimer' = startTimer(started)
       /\ chromeLocal' = setTimerState(chromeLocal, timerState)
       /\ stats' = counted
       /\ localStorage' = [store EXCEPT !.focusFlowTimerState = timerState,
                                        !.focusFlowStats = counted]
       /\ view' = "timer"

\* dashboard.js lines 111-132, with window.startFocusTimer (timer.js lines
\* 483-485) and startFocusTimer (timer.js lines 472-475).
showFocusTimer(taskData, st, store) ==
    startFocusSession(taskData.duration, taskData.breakDuration, getCurrentTask(store),
                      st, store)

\* dashboard.js lines 59-93: the form is submitted.
handleFocusStart(task, duration, breakDuration) ==
    /\ view = "dashboard"
    /\ IF trim(task) = <<>>
       THEN UNCHANGED pageVars
       ELSE /\ stats.focusSessions < MaxFocusSessions
            /\ LET taskData == [task |-> trim(task),
                                duration |-> duration,
                                breakDuration |-> breakDuration]
                   counted == [stats EXCEPT !.focusSessions = @ + 1]
                   store == [localStorage EXCEPT !.currentFocusTask = taskData,
                                                 !.focusFlowStats = counted]
               IN showFocusTimer(taskData, counted, store)
    /\ UNCHANGED <<apiVars, extVars, call, cacheVars>>

\* dashboard.js lines 95-109: the quick start button is clicked.
quickStart ==
    /\ view = "dashboard"
    /\ stats.focusSessions < MaxFocusSessions
    /\ LET taskData == [task |-> <<"Quick focus session">>,
                        duration |-> 25,
                        breakDuration |-> 5]
           counted == [stats EXCEPT !.focusSessions = @ + 1]
           store == [localStorage EXCEPT !.currentFocusTask = taskData,
                                         !.focusFlowStats = counted]
       IN showFocusTimer(taskData, counted, store)
    /\ UNCHANGED <<apiVars, extVars, call, cacheVars>>

\* timer.js lines 114-122.
pauseTimer ==
    LET paused == [focusTimer EXCEPT !.isPaused = TRUE, !.timer = FALSE]
        timerState == saveTimerState(paused, getCurrentTask(localStorage))
    IN /\ CanWrite
       /\ focusTimer' = paused
       /\ chromeLocal' = setTimerState(chromeLocal, timerState)
       /\ localStorage' = [localStorage EXCEPT !.focusFlowTimerState = timerState]

\* timer.js lines 124-129.
resumeTimer ==
    LET resumed == startTimer([focusTimer EXCEPT !.isPaused = FALSE])
        timerState == saveTimerState(resumed, getCurrentTask(localStorage))
    IN /\ CanWrite
       /\ focusTimer' = resumed
       /\ chromeLocal' = setTimerState(chromeLocal, timerState)
       /\ localStorage' = [localStorage EXCEPT !.focusFlowTimerState = timerState]

\* timer.js lines 36-38 and 102-112: the pause button is clicked.
togglePause ==
    /\ view = "timer"
    /\ IF focusTimer.isPaused THEN resumeTimer ELSE pauseTimer
    /\ UNCHANGED <<stats, view>>
    /\ UNCHANGED <<apiVars, extVars, call, cacheVars>>

\* timer.js lines 131-155, with clearTimerState (lines 369-375),
\* showMainDashboard (lines 333-345) and updateStats (dashboard.js lines
\* 210-219), on the timer's fields this.
stopTimer(this) ==
    LET stopped == [this EXCEPT !.timer = FALSE,
                                !.isPaused = FALSE,
                                !.isBreak = FALSE,
                                !.timeLeft = 0]
        minutesCompleted == Round(stopped.originalDuration - stopped.timeLeft, 60)
        credited == updateFocusTime(stats, minutesCompleted)
    IN /\ chromeLocal.timerState # Null => CanWrite
       /\ stats.totalFocusTime < MaxFocusTime
       /\ focusTimer' = stopped
       /\ chromeLocal' = removeTimerState(chromeLocal)
       /\ stats' = credited
       /\ localStorage' = [localStorage EXCEPT !.focusFlowTimerState = Null,
                                               !.focusFlowStats = credited]
       /\ view' = "dashboard"

\* timer.js lines 32-34: the stop button is clicked.
StopButton ==
    /\ view = "timer"
    /\ stopTimer(focusTimer)
    /\ UNCHANGED <<apiVars, extVars, call, cacheVars>>

\* timer.js lines 188-201.
startBreak(this) ==
    [this EXCEPT !.isBreak = TRUE,
                 !.timeLeft = this.breakDuration,
                 !.originalDuration = this.breakDuration]

\* timer.js lines 203-216, with completeAllSessions (lines 229-233).
completeBreak ==
    LET resumed == [focusTimer EXCEPT !.isBreak = FALSE,
                                      !.currentSession = @ + 1,
                                      !.lastStorageUpdate = 0]
    IN IF resumed.currentSession <= resumed.totalSessions
       THEN /\ focusTimer' = [resumed EXCEPT !.timeLeft = resumed.originalDuration]
            /\ UNCHANGED <<stats, localStorage, chromeLocal, view>>
       ELSE stopTimer(resumed)

\* timer.js lines 218-227, with updateStats (dashboard.js lines 210-219).
completeFocusSession ==
    LET minutesCompleted == Round(focusTimer.originalDuration, 60)
        credited == updateFocusTime(stats, minutesCompleted)
    IN /\ stats.totalFocusTime < MaxFocusTime
       /\ focusTimer' = [focusTimer EXCEPT !.lastStorageUpdate = 0]
       /\ stats' = credited
       /\ localStorage' = [localStorage EXCEPT !.focusFlowStats = credited]
       /\ UNCHANGED <<chromeLocal, view>>

\* timer.js lines 98 and 157-178, with handleTimerComplete (lines 180-186):
\* the interval fires.  due is whether STORAGE_UPDATE_INTERVAL has passed
\* since lastStorageUpdate.
updateTimer ==
    /\ focusTimer.timer
    /\ IF focusTimer.timeLeft <= 0
       THEN IF focusTimer.isBreak THEN completeBreak ELSE completeFocusSession
       ELSE \E due \in BOOLEAN :
               /\ focusTimer.lastStorageUpdate = 0 => due
               /\ LET counted == [focusTimer EXCEPT
                                     !.timeLeft = @ - 1,
                                     !.lastStorageUpdate = IF due THEN 1 ELSE 0]
                      timerState == saveTimerState(counted, getCurrentTask(localStorage))
                  IN /\ focusTimer' = IF counted.timeLeft = 0 /\ ~counted.isBreak
                                      THEN startBreak(counted)
                                      ELSE counted
                     /\ IF due
                        THEN /\ CanWrite
                             /\ chromeLocal' = setTimerState(chromeLocal, timerState)
                             /\ localStorage' =
                                   [localStorage EXCEPT !.focusFlowTimerState = timerState]
                        ELSE UNCHANGED <<chromeLocal, localStorage>>
                     /\ UNCHANGED <<stats, view>>
    /\ UNCHANGED <<apiVars, extVars, call, cacheVars>>

\* timer.js lines 394-415.  A session count of 0 is restored as 1
\* (state.currentSession || 1).
restoreTimerState(this, state) ==
    LET restored == [this EXCEPT !.originalDuration = state.duration,
                                 !.breakDuration = state.breakDuration,
                                 !.timeLeft = state.timeRemaining,
                                 !.isPaused = ~state.isRunning,
                                 !.isBreak = state.isBreak,
                                 !.currentSession =
                                     IF state.currentSession = 0
                                     THEN 1
                                     ELSE state.currentSession,
                                 !.totalSessions =
                                     IF state.totalSessions = 0
                                     THEN 1
                                     ELSE state.totalSessions]
    IN IF state.isRunning /\ ~restored.isPaused THEN startTimer(restored) ELSE restored

\* timer.js lines 42-46 and 417-421: the oldest waiting onChanged event is
\* delivered to the page.
handleStorageChange ==
    /\ chromeLocal.changes # <<>>
    /\ LET change == Head(chromeLocal.changes)
       IN focusTimer' = IF change.newValue # Null /\ ~focusTimer.timer
                        THEN restoreTimerState(focusTimer, change.newValue)
                        ELSE focusTimer
    /\ chromeLocal' = [chromeLocal EXCEPT !.changes = Tail(@)]
    /\ UNCHANGED <<stats, localStorage, view>>
    /\ UNCHANGED <<apiVars, extVars, call, cacheVars>>

\* A second tab shows the dashboard: its checkExistingTimer (timer.js lines
\* 386-392) restored the saved timer state when it loaded, its interval
\* runs, and its updateTimer (lines 163-172) saves the state one second on.
OtherTabSaves ==
    /\ localStorage.focusFlowTimerState # Null
    /\ localStorage.focusFlowTimerState.timeRemaining > 0
    /\ CanWrite
    /\ LET timerState == [localStorage.focusFlowTimerState EXCEPT
                             !.timeRemaining = @ - 1,
                             !.isRunning = TRUE]
       IN /\ chromeLocal' = setTimerState(chromeLocal, timerState)
          /\ localStorage' = [localStorage EXCEPT !.focusFlowTimerState = timerState]
    /\ UNCHANGED <<focusTimer, stats, view>>
    /\ UNCHANGED <<apiVars, extVars, call, cacheVars>>

\* What the form offers: a task, a focus duration and a break duration in
\* minutes.
TaskInputs == {<<" ">>, <<"t">>}

FocusDurations == {0, 1, 26}

BreakDurations == {0, 1}

PageNext ==
    \/ \E task \in TaskInputs, duration \in FocusDurations, breakDuration \in BreakDurations :
          handleFocusStart(task, duration, breakDuration)
    \/ quickStart
    \/ togglePause
    \/ StopButton
    \/ updateTimer
    \/ handleStorageChange

\* Two tabs and sessions of a minute at most.
TabsNext ==
    \/ \E duration \in {0, 1}, breakDuration \in BreakDurations :
          handleFocusStart(<<"t">>, duration, breakDuration)
    \/ togglePause
    \/ StopButton
    \/ updateTimer
    \/ handleStorageChange
    \/ OtherTabSaves

(***************************************************************************)
(* performance.js: cacheMiddleware in front of a route, with the           *)
(* cacheManager it uses.  The route is POST /api/check, whose handler      *)
(* answers as checkTask does.  Time is counted in minutes.  The cache      *)
(* never holds maxSize (1000) entries here, so set never evicts.           *)
(***************************************************************************)
\* Requests to the route in one run.
NumCached == 2

\* Minutes the clock runs.
MaxClock == 6

\* Line 337: the default ttl, 300000 ms.
TtlMinutes == 5

\* The requests a client may send: req.method, req.originalUrl (the query
\* string included) and req.body.
CachedRequests ==
    [method : {"POST"},
     originalUrl : {"/api/check", "/api/check?v=2"},
     body : {[titleTab |-> <<"a">>, goalNeeded |-> <<"t">>],
             [titleTab |-> <<"b">>, goalNeeded |-> <<"t">>],
             [titleTab |-> <<"a">>]}]

\* Lines 120-125 and 292: the cache is empty; no request has arrived.
CacheInit ==
    /\ cache = [key \in {<<q.method, q.originalUrl>> : q \in CachedRequests} |-> Null]
    /\ creq = [r \in 1..NumCached |->
                 [pc |-> "new",
                  request |-> [method |-> "", originalUrl |-> "", body |-> <<>>],
                  cacheKey |-> <<>>, xCache |-> "none", res |-> Null]]
    /\ clock = 0

\* Lines 338-361, with cacheManager.get (lines 146-164): request r arrives
\* at the middleware.  On a hit the cached value is the response; otherwise
\* res.json is overridden and next() passes the request to the handler.
cacheMiddleware(r, request) ==
    /\ creq[r].pc = "new"
    /\ \A q \in 1..(r - 1) : creq[q].pc # "new"
    /\ LET cacheKey == <<request.method, request.originalUrl>>
           entry == cache[cacheKey]
           passed == [creq EXCEPT ![r] = [pc |-> "handling", request |-> request,
                                          cacheKey |-> cacheKey, xCache |-> "none",
                                          res |-> Null]]
       IN IF entry = Null
          THEN /\ creq' = passed
               /\ UNCHANGED cache
          ELSE IF clock - entry.timestamp > entry.ttl
          THEN /\ cache' = [cache EXCEPT ![cacheKey] = Null]
               /\ creq' = passed
          ELSE /\ cache' = [cache EXCEPT ![cacheKey].accessCount = @ + 1,
                                         ![cacheKey].timestamp = clock]
               /\ creq' = [creq EXCEPT ![r] = [pc |-> "done", request |-> request,
                                               cacheKey |-> cacheKey, xCache |-> "HIT",
                                               res |-> [status |-> 200,
                                                        json |-> entry.value]]]
    /\ UNCHANGED clock
    /\ UNCHANGED <<apiVars, extVars, pageVars, call>>

\* Lines 346-357, with cacheManager.set (lines 128-143): the handler of
\* request r answers with res.status(response.status).json(response.json),
\* which is the overridden res.json.
res_json(r, response) ==
    /\ creq[r].pc = "handling"
    /\ IF response.status = 200
       THEN /\ cache' = [cache EXCEPT ![creq[r].cacheKey] =
                           [value |-> response.json, timestamp |-> clock,
                            ttl |-> TtlMinutes, accessCount |-> 0]]
            /\ creq' = [creq EXCEPT ![r].pc = "done", ![r].xCache = "MISS",
                                    ![r].res = response]
       ELSE /\ creq' = [creq EXCEPT ![r].pc = "done", ![r].res = response]
            /\ UNCHANGED cache
    /\ UNCHANGED clock
    /\ UNCHANGED <<apiVars, extVars, pageVars, call>>

\* A minute passes.
Tick ==
    /\ clock < MaxClock
    /\ clock' = clock + 1
    /\ UNCHANGED <<cache, creq>>
    /\ UNCHANGED <<apiVars, extVars, pageVars, call>>

\* Lines 124 and 227-242: the cleanup interval fires with entries expired.
cleanup ==
    /\ \E key \in DOMAIN cache :
          cache[key] # Null /\ clock - cache[key].timestamp > cache[key].ttl
    /\ cache' = [key \in DOMAIN cache |->
                    IF cache[key] # Null /\ clock - cache[key].timestamp > cache[key].ttl
                    THEN Null
                    ELSE cache[key]]
    /\ UNCHANGED <<creq, clock>>
    /\ UNCHANGED <<apiVars, extVars, pageVars, call>>

CacheNext ==
    \/ \E r \in 1..NumCached, request \in CachedRequests : cacheMiddleware(r, request)
    \/ \E r \in 1..NumCached :
          \E response \in ApiAnswers(creq[r].request.body) : res_json(r, response)
    \/ Tick
    \/ cleanup

(***************************************************************************)
(* The specifications: the API serving requests, and the background script *)
(* handling its events, and the pure functions called on their own.        *)
(***************************************************************************)
Init == ApiInit /\ ExtInit /\ FnInit /\ PageInit /\ CacheInit

Next == ApiNext

Spec == Init /\ [][Next]_vars

ExtSpec == Init /\ [][ExtNext]_vars

LinksSpec == Init /\ [][LinksNext]_vars

FnSpec == Init /\ [][FnNext]_vars

CacheSpec == Init /\ [][CacheNext]_vars

\* The background script started in a browser that may have run it before.
BgStart == ApiInit /\ BgInit /\ FnInit /\ PageInit /\ CacheInit

BgSpec == BgStart /\ [][BgNext]_vars

PageSpec == Init /\ [][PageNext]_vars

TabsSpec == Init /\ [][TabsNext]_vars

\* The page with a user who starts sessions and then leaves the timer alone,
\* and with what the browser guarantees: an interval that is set keeps
\* firing, and an onChanged event that waits is delivered.
TimerRuns ==
    \/ \E duration \in FocusDurations, breakDuration \in BreakDurations :
          handleFocusStart(<<"t">>, duration, breakDuration)
    \/ updateTimer
    \/ handleStorageChange

PageLiveSpec ==
    /\ Init
    /\ [][TimerRuns]_vars
    /\ WF_vars(updateTimer)
    /\ WF_vars(handleStorageChange)

\* Relevance checks whose texts are present but may consist of spaces only.
BlankBodies ==
    { [titleTab |-> <<" ">>, goalNeeded |-> <<"t">>],
      [titleTab |-> <<"t">>, goalNeeded |-> <<" ", " ">>] }

BlankNext ==
    \/ PipelineResolves
    \/ PipelineRejects
    \/ \E r \in Reqs, body \in BlankBodies : checkTask(r, body)
    \/ \E r \in Reqs, embeddings \in EmbeddingPairs : ExtractorResolves(r, embeddings)
    \/ \E r \in Reqs, message \in ErrorMessages : ExtractorRejects(r, message)
    \/ \E r \in Reqs : checkTask_continue(r)
    \/ \E r \in Reqs, completion \in Completions(JudgeTexts) : OpenAIResolves(r, completion)
    \/ \E r \in Reqs, message \in ErrorMessages : OpenAIRejects(r, message)

BlankSpec == Init /\ [][BlankNext]_vars

\* The API with what Node's event loop guarantees: a handler whose awaited
\* promise has settled is resumed.  Whether the extractor or the completion
\* ever settles is up to the provider, and nothing in the handlers sets a
\* timer.
LiveSpec == Init /\ [][Next]_vars /\ \A r \in Reqs : WF_vars(checkTask_continue(r))

(***************************************************************************)
(* Properties.  Helpers first.                                             *)
(***************************************************************************)
\* Field f of the body carries a non-empty text.
HasText(body, f) == f \in DOMAIN body /\ body[f] # <<>>

\* Request r is a relevance check whose body has both required texts.
ValidCheck(r) ==
    /\ req[r].route = "/check"
    /\ HasText(req[r].body, "titleTab")
    /\ HasText(req[r].body, "goalNeeded")

\* The extractor resolved for request r; Similarity is then the cosine of
\* the two vectors it returned.
Scored(r) == req[r].embeddings # <<>>

Similarity(r) ==
    cosineSimilarity(Vec(req[r].embeddings[1]), Vec(req[r].embeddings[2]))

\* The embedding stage of request r has ended, and ended in an error.
EmbeddingFailed(r) ==
    /\ req[r].pc \in {"scored", "await_openai", "done"}
    /\ ~Scored(r)

\* The completion of request r settled, and how.
JudgeFailed(r) ==
    /\ req[r].completion # Null
    /\ IF req[r].completion = Rejected THEN TRUE ELSE ~req[r].completion.hasContent

JudgeSucceeded(r) ==
    /\ req[r].completion # Null
    /\ IF req[r].completion = Rejected THEN FALSE ELSE req[r].completion.hasContent

\* The one response of a finished request.
Answer(r) == req[r].res[1]

Answered(r) == req[r].pc = "done" /\ Len(req[r].res) = 1

\* C1: in checkTask the LLM judge is called if and only if the embedding
\* stage reported an error or returned a similarity strictly below 0.3; a
\* similarity of 0.3 or more never escalates, also when it is at most 0.4
\* and the embedding verdict is negative.
C1_EscalatesIffErrorOrLowSimilarity ==
    \A r \in Reqs :
        ValidCheck(r) =>
            /\ req[r].pc \in {"await_extractor", "scored"} => req[r].openaiCalls = 0
            /\ req[r].pc \in {"await_openai", "done"} =>
                   (req[r].openaiCalls >= 1
                        <=> (EmbeddingFailed(r)
                             \/ (Scored(r) /\ Less(Similarity(r), Dec(3, 10)))))

\* One request with similarity exactly 0.3 answered without the judge, its
\* verdict negative, and one with a lower similarity that was escalated.
C1_Witness ==
    \E r1, r2 \in Reqs :
        /\ ValidCheck(r1) /\ Answered(r1) /\ Scored(r1)
        /\ Similarity(r1) = Dec(3, 10)
        /\ Answer(r1).json.relevant = FALSE
        /\ req[r1].openaiCalls = 0
        /\ ValidCheck(r2) /\ Scored(r2)
        /\ Less(Similarity(r2), Dec(3, 10))
        /\ req[r2].openaiCalls = 1

\* C2: when the judge call fails during escalation the check answers with
\* the default-deny verdict (relevant false, confidence 0, method the LLM's)
\* in a 200 response; the error is not passed on as an error response.
C2_JudgeFailureIsDefaultDeny ==
    \A r \in Reqs :
        (ValidCheck(r) /\ JudgeFailed(r)) =>
            /\ Answered(r)
            /\ Answer(r).status = 200
            /\ Answer(r).json.relevant = FALSE
            /\ Answer(r).json.confidence = Dec(0, 1)
            /\ Answer(r).json.method = "gpt-4o-mini"
            /\ "error" \notin DOMAIN Answer(r).json

\* A low similarity escalated and the completion rejected.
C2_Witness ==
    \E r \in Reqs :
        /\ ValidCheck(r) /\ Scored(r) /\ Answered(r)
        /\ req[r].completion = Rejected
        /\ Answer(r).json.relevant = FALSE

\* C3: when the embedding stage succeeds with similarity >= 0.3 the answer
\* is the embedding stage's: relevant = (similarity > 0.4), confidence =
\* similarity, method the embedding's, and the judge is not called.
C3_EmbeddingVerdictIsTerminal ==
    \A r \in Reqs :
        (ValidCheck(r) /\ Scored(r) /\ ~Less(Similarity(r), Dec(3, 10))
                /\ req[r].pc \notin {"await_extractor", "scored"}) =>
            /\ Answered(r)
            /\ Answer(r).status = 200
            /\ Answer(r).json.relevant = Greater(Similarity(r), Dec(4, 10))
            /\ Answer(r).json.confidence = Similarity(r)
            /\ Answer(r).json.method = "embeddings"
            /\ req[r].openaiCalls = 0

\* Similarity exactly 0.4 answered not relevant, and a higher one relevant.
C3_Witness ==
    \E r1, r2 \in Reqs :
        /\ ValidCheck(r1) /\ Answered(r1) /\ Scored(r1)
        /\ Similarity(r1) = Dec(4, 10)
        /\ Answer(r1).json.relevant = FALSE
        /\ ValidCheck(r2) /\ Answered(r2) /\ Scored(r2)
        /\ Answer(r2).json.relevant = TRUE
        /\ Answer(r2).json.method = "embeddings"

\* C4: when the check escalates and the judge call succeeds the answer is
\* the judge's: relevant as the judge decided from its text, confidence the
\* constant 0.8, method the LLM's, reasoning the judge's text.
C4_JudgeVerdictIsFinal ==
    \A r \in Reqs :
        (ValidCheck(r) /\ JudgeSucceeded(r)) =>
            /\ Answered(r)
            /\ Answer(r).status = 200
            /\ Answer(r).json.relevant
                   = includes(toLowerCase(req[r].completion.content), <<"y", "e", "s">>)
            /\ Answer(r).json.confidence = Dec(8, 10)
            /\ Answer(r).json.method = "gpt-4o-mini"
            /\ Answer(r).json.reasoning = req[r].completion.content

\* The embedding stage scored the pair not relevant, the judge said yes and
\* the answer is relevant.
C4_Witness ==
    \E r \in Reqs :
        /\ ValidCheck(r) /\ Scored(r) /\ Answered(r) /\ JudgeSucceeded(r)
        /\ req[r].embeddingsResult.relevant = FALSE
        /\ Answer(r).json.relevant = TRUE

\* C5: on both entry points a request whose required text is missing or
\* empty is answered 400 before the extractor or the LLM is called.
C5_ValidationFirst ==
    \A r \in Reqs :
        LET missing ==
                \/ /\ req[r].route = "/check"
                   /\ ~(HasText(req[r].body, "titleTab") /\ HasText(req[r].body, "goalNeeded"))
                \/ /\ req[r].route = "/initial"
                   /\ ~HasText(req[r].body, "taskGoal")
        IN missing =>
               /\ Answered(r)
               /\ Answer(r).status = 400
               /\ req[r].extractorCalls = 0
               /\ req[r].openaiCalls = 0

\* A check with an empty titleTab and a generation without taskGoal, both
\* answered 400.
C5_Witness ==
    \E r1, r2 \in Reqs :
        /\ req[r1].route = "/check"
        /\ req[r1].body = [titleTab |-> <<>>, goalNeeded |-> <<"t">>]
        /\ Answered(r1) /\ Answer(r1).status = 400
        /\ req[r2].route = "/initial"
        /\ req[r2].body = <<>>
        /\ Answered(r2) /\ Answer(r2).status = 400

\* A verdict as checkTask sends it.
WellFormedVerdict(answer) ==
    /\ answer.status = 200
    /\ {"relevant", "confidence", "method"} \subseteq DOMAIN answer.json
    /\ answer.json.relevant \in BOOLEAN
    /\ answer.json.method \in {"embeddings", "gpt-4o-mini"}
    /\ ~Less(answer.json.confidence, Dec(0, 1))
    /\ ~Greater(answer.json.confidence, Dec(1, 1))

\* C6: a relevance check ends either in a well-formed verdict or in a
\* validation error; no failure of the embedding stage or of the judge
\* ends it otherwise (no 500 response), and nothing is sent before the end.
C6_VerdictOrValidationError ==
    \A r \in Reqs :
        req[r].route = "/check" =>
            IF req[r].pc = "done"
            THEN /\ Len(req[r].res) = 1
                 /\ IF ValidCheck(r)
                    THEN WellFormedVerdict(Answer(r))
                    ELSE Answer(r).status = 400
            ELSE req[r].res = <<>>

\* Both stages failed and the request was still answered with a verdict.
C6_Witness ==
    \E r \in Reqs :
        /\ ValidCheck(r) /\ Answered(r)
        /\ req[r].extractorCalls = 1 /\ EmbeddingFailed(r)
        /\ JudgeFailed(r)
        /\ WellFormedVerdict(Answer(r))

\* The state of the specification's per-request machine.
ClassifierState(q) ==
    CASE q.pc \in {"idle", "await_extractor"} -> "INIT"
      [] q.pc = "scored" -> "EMBEDDING_SCORED"
      [] q.pc = "await_openai" -> "ESCALATED"
      [] q.pc = "done" /\ q.finalResult = Null -> "REJECTED"
      [] q.pc = "done" /\ q.finalResult # Null ->
            IF q.finalResult.method = "embeddings" THEN "TERMINAL_EMBEDDING"
            ELSE IF "error" \in DOMAIN q.finalResult THEN "TERMINAL_DEFAULT_DENY"
            ELSE "TERMINAL_LLM"

ClassifierEdges ==
    { <<"INIT", "EMBEDDING_SCORED">>,
      <<"EMBEDDING_SCORED", "TERMINAL_EMBEDDING">>,
      <<"EMBEDDING_SCORED", "ESCALATED">>,
      <<"ESCALATED", "TERMINAL_LLM">>,
      <<"ESCALATED", "TERMINAL_DEFAULT_DENY">> }

\* C7: a valid check moves INIT, EMBEDDING_SCORED, then TERMINAL_EMBEDDING
\* or ESCALATED, then TERMINAL_LLM or TERMINAL_DEFAULT_DENY; the extractor
\* and the LLM are each called at most once for it, no call is repeated,
\* and one response is sent, when the machine reaches a terminal state.
C7_OnePassNoRetry ==
    [][\A r \in Reqs :
          (req'[r].route = "/check" /\ HasText(req'[r].body, "titleTab")
                /\ HasText(req'[r].body, "goalNeeded")) =>
             /\ \/ ClassifierState(req'[r]) = ClassifierState(req[r])
                \/ <<ClassifierState(req[r]), ClassifierState(req'[r])>> \in ClassifierEdges
             /\ req'[r].extractorCalls \in {req[r].extractorCalls, req[r].extractorCalls + 1}
             /\ req'[r].openaiCalls \in {req[r].openaiCalls, req[r].openaiCalls + 1}
             /\ req'[r].extractorCalls <= 1
             /\ req'[r].openaiCalls <= 1
             /\ (req'[r].openaiCalls = 1 /\ req[r].openaiCalls = 0)
                    => ClassifierState(req'[r]) = "ESCALATED"
             /\ Len(req'[r].res) =
                    (IF ClassifierState(req'[r]) \in
                            {"TERMINAL_EMBEDDING", "TERMINAL_LLM", "TERMINAL_DEFAULT_DENY"}
                     THEN 1 ELSE 0)
      ]_vars

\* One request ended at TERMINAL_LLM after one call of each stage, the other
\* at TERMINAL_DEFAULT_DENY.
C7_Witness ==
    \E r1, r2 \in Reqs :
        /\ ValidCheck(r1) /\ ClassifierState(req[r1]) = "TERMINAL_LLM"
        /\ req[r1].extractorCalls = 1 /\ req[r1].openaiCalls = 1
        /\ Len(req[r1].res) = 1
        /\ ValidCheck(r2) /\ ClassifierState(req[r2]) = "TERMINAL_DEFAULT_DENY"
        /\ Len(req[r2].res) = 1

\* The fetch of check c resolved with a response.
Responded(c) == checks[c].response # Null

\* C8: a check whose request failed (the fetch rejected, the response was
\* not ok, its body could not be read) or whose answer carries relevant =
\* false ends with the tab redirected to the blocked page, which names the
\* website; the tab is left alone only when the API answered ok with a body
\* whose relevant is not false.  Nothing is redirected before the end.
C8_BlockedUnlessVerdictAllows ==
    \A c \in Checks :
        /\ checks[c].pc \in {"await_fetch", "await_json"} => checks[c].redirect = Null
        /\ checks[c].pc = "done" =>
              LET failed ==
                      \/ checks[c].failure # "none"
                      \/ ~Responded(c)
                      \/ checks[c].response.status \notin 200..299
                  notRelevant ==
                      /\ ~failed
                      /\ "relevant" \in DOMAIN checks[c].response.json
                      /\ checks[c].response.json.relevant = FALSE
              IN IF failed \/ notRelevant
                 THEN /\ checks[c].redirect # Null
                      /\ checks[c].redirect.tabId = checks[c].tabId
                      /\ checks[c].redirect.url = <<"chrome-extension://", "files/blocked.html">>
                      /\ checks[c].redirect.query.website = checks[c].tabDetails.tabURL
                 ELSE checks[c].redirect = Null

\* A tab was redirected on the API's default-deny verdict, received in an
\* ok response.
C8_Witness ==
    \E c \in Checks :
        /\ checks[c].pc = "done"
        /\ checks[c].failure = "none"
        /\ Responded(c)
        /\ checks[c].response.status = 200
        /\ checks[c].response.json.relevant = FALSE
        /\ checks[c].response.json.confidence = Dec(0, 1)
        /\ checks[c].response.json.method = "gpt-4o-mini"
        /\ checks[c].redirect # Null

\* C9: a check that arrives while the embedding model is not initialised
\* (still loading, or its load failed) is an embedding failure: it is
\* escalated to the judge, never answered by the embedding stage and never
\* fails.
C9_NotReadyEscalates ==
    \A r \in Reqs :
        (ValidCheck(r) /\ req[r].initAtArrival \in {"awaiting", "caught"}) =>
            /\ req[r].pc \in {"scored", "await_openai", "done"}
            /\ req[r].extractorCalls = 0
            /\ ~Scored(r)
            /\ req[r].pc \in {"await_openai", "done"} => req[r].openaiCalls = 1
            /\ req[r].pc = "done" =>
                   /\ Len(req[r].res) = 1
                   /\ Answer(r).status = 200
                   /\ Answer(r).json.method = "gpt-4o-mini"

\* One check arrived during the load, one after the load had failed; both
\* were answered by the judge.
C9_Witness ==
    \E r1, r2 \in Reqs :
        /\ ValidCheck(r1) /\ req[r1].initAtArrival = "awaiting"
        /\ Answered(r1) /\ Answer(r1).json.method = "gpt-4o-mini"
        /\ ValidCheck(r2) /\ req[r2].initAtArrival = "caught"
        /\ Answered(r2) /\ Answer(r2).json.method = "gpt-4o-mini"

\* C10 as claimed: a check fails with not-initialised only if the
\* initialisation itself failed (one that arrives during the load waits and
\* is scored by the embedding stage).
C10_NotReadyOnlyAfterFailedInit ==
    \A r \in Reqs :
        (ValidCheck(r) /\ req[r].embeddingsResult # Null
                /\ "error" \in DOMAIN req[r].embeddingsResult
                /\ req[r].embeddingsResult.error = NotInitialized) =>
            req[r].initAtArrival = "caught"

\* C10 as amended: pipeline() is called once and no request calls it again;
\* a check that arrives before extractor is assigned, during the load as
\* after a failed load, does not wait: its embedding stage fails at once
\* with not-initialised, without calling the extractor; a check that
\* arrives after the load succeeded calls the extractor.
C10_LoadOnceNoWaiting ==
    /\ pipelineCalls = 1
    /\ \A r \in Reqs :
           ValidCheck(r) =>
               IF req[r].initAtArrival = "done"
               THEN /\ req[r].extractorCalls = 1
                    /\ EmbeddingFailed(r) => req[r].embeddingsResult.error # NotInitialized
               ELSE /\ req[r].extractorCalls = 0
                    /\ req[r].pc # "await_extractor"
                    /\ req[r].embeddingsResult # Null
                    /\ "error" \in DOMAIN req[r].embeddingsResult
                    /\ req[r].embeddingsResult.error = NotInitialized

\* A check arrived during the load and was sent to the judge although the
\* load has succeeded since.
C10_Witness ==
    \E r \in Reqs :
        /\ ValidCheck(r) /\ req[r].initAtArrival = "awaiting"
        /\ extractor = "pipeline"
        /\ req[r].extractorCalls = 0
        /\ req[r].openaiCalls = 1

\* C11 as claimed: every relevance check that waits for the extractor or
\* for the completion is eventually answered (by a default-deny verdict
\* when the provider does not answer in time).
C11_EveryCheckAnswered ==
    \A r \in Reqs :
        (req[r].pc \in {"await_extractor", "await_openai"}) ~> (req[r].pc = "done")

\* The verdict that request r's own inputs determine: its texts, whether
\* the model was ready when it arrived, and what the extractor and the
\* completion returned for it.
OwnVerdict(r) ==
    IF Scored(r) /\ ~Less(Similarity(r), Dec(3, 10))
    THEN [relevant |-> Greater(Similarity(r), Dec(4, 10)),
          confidence |-> Similarity(r),
          method |-> "embeddings"]
    ELSE IF JudgeSucceeded(r)
    THEN [relevant |-> includes(toLowerCase(req[r].completion.content), <<"y", "e", "s">>),
          confidence |-> Dec(8, 10),
          method |-> "gpt-4o-mini",
          reasoning |-> req[r].completion.content]
    ELSE [relevant |-> FALSE, confidence |-> Dec(0, 1), method |-> "gpt-4o-mini"]

\* C12: requests are independent.  The answer of a check is the verdict its
\* own inputs determine, with its own goal and tab title, whatever the
\* other requests did in between; the extractor is called for it exactly
\* when the model was ready at its arrival; and a step of one request
\* leaves the record of every other request as it was.
C12_RequestsAreIndependent ==
    /\ [](\A r \in Reqs :
             (ValidCheck(r) /\ Answered(r)) =>
                 /\ [f \in DOMAIN OwnVerdict(r) |-> Answer(r).json[f]] = OwnVerdict(r)
                 /\ DOMAIN Answer(r).json
                        = DOMAIN OwnVerdict(r) \cup {"success", "goal", "tab"}
                 /\ Answer(r).json.goal = req[r].body.goalNeeded
                 /\ Answer(r).json.tab = req[r].body.titleTab
                 /\ req[r].extractorCalls = (IF req[r].initAtArrival = "done" THEN 1 ELSE 0))
    /\ [][\A r \in Reqs :
             req'[r] # req[r] => \A q \in Reqs \ {r} : req'[q] = req[q]]_vars

\* The second request was answered by the embedding stage while the first,
\* with the same texts, still waits for the judge.
C12_Witness ==
    /\ ValidCheck(1) /\ req[1].pc = "await_openai"
    /\ ValidCheck(2) /\ Answered(2)
    /\ req[2].body = req[1].body
    /\ Answer(2).json.method = "embeddings"
    /\ Answer(2).json.relevant = TRUE

\* C13 as claimed: a check whose goal or tab title is empty after trimming
\* (spaces only) is answered with a validation error, and neither the
\* extractor nor the LLM is called for it.
C13_BlankIsValidationFailure ==
    \A r \in Reqs :
        (/\ req[r].route = "/check"
         /\ \/ trim(req[r].body.titleTab) = <<>>
            \/ trim(req[r].body.goalNeeded) = <<>>) =>
            /\ Answered(r)
            /\ Answer(r).status = 400
            /\ req[r].extractorCalls = 0
            /\ req[r].openaiCalls = 0

HasYes(text) ==
    \E i \in 1..(Len(text) - 2) :
        /\ text[i] \in {"y", "Y"}
        /\ text[i + 1] \in {"e", "E"}
        /\ text[i + 2] \in {"s", "S"}

\* C15: the judge wrapper answers relevant = true exactly when the
\* response text contains 'yes' in any letter case, anywhere; every other
\* response (empty, without a text, anything else) gives relevant = false.
C15_RelevantIffYesAnywhere ==
    call.fn = "checkRelevanceOpenAI" =>
        LET completion == call.args[1]
        IN call.result.relevant = (completion.hasContent /\ HasYes(completion.content))

\* 'nYes': the token in mixed case, not at the start, found.
C15_Witness ==
    /\ call.fn = "checkRelevanceOpenAI"
    /\ call.args[1] = Completion(<<"n", "Y", "e", "s">>)
    /\ call.result.relevant = TRUE

\* All components are zero (true of the empty vector).
IsZeroVector(data) == \A i \in 1..Len(data) : data[i] = 0

\* C16: cosineSimilarity returns 0, and no error, when a vector is absent,
\* the lengths differ, a vector is empty or a vector has zero magnitude.
C16_DegenerateIsZero ==
    call.fn = "cosineSimilarity" =>
        LET vecA == call.args[1]
            vecB == call.args[2]
            degenerate ==
                \/ ~vecA.present
                \/ ~vecB.present
                \/ Len(vecA.data) # Len(vecB.data)
                \/ Len(vecA.data) = 0
                \/ Len(vecB.data) = 0
                \/ IsZeroVector(vecA.data)
                \/ IsZeroVector(vecB.data)
        IN degenerate => call.result = Dec(0, 1)

\* An array against the zero vector of its length.
C16_Witness ==
    /\ call.fn = "cosineSimilarity"
    /\ call.args = <<Vec(<<1, 2>>), Vec(<<0, 0>>)>>
    /\ call.result = Dec(0, 1)

\* C17 as claimed: vectors of different lengths are reported as an error.
C17_MismatchIsError ==
    (/\ call.fn = "cosineSimilarity"
     /\ call.args[1].present /\ call.args[2].present
     /\ Len(call.args[1].data) # Len(call.args[2].data)) =>
        IsThrown(call.result)

\* C17 as amended: vectors of different lengths are not an error; the
\* scorer returns the similarity 0 for them, whatever their components.
C17_MismatchIsSilentZero ==
    (/\ call.fn = "cosineSimilarity"
     /\ call.args[1].present /\ call.args[2].present
     /\ Len(call.args[1].data) # Len(call.args[2].data)) =>
        /\ ~IsThrown(call.result)
        /\ call.result = Dec(0, 1)

\* Two non-zero vectors of lengths 1 and 2.
C17_Witness ==
    /\ call.fn = "cosineSimilarity"
    /\ call.args = <<Vec(<<1>>), Vec(<<1, 2>>)>>
    /\ call.result = Dec(0, 1)

\* C18: cosineSimilarity(a, b) = cosineSimilarity(b, a) for all arguments,
\* absent, empty, mismatched and zero vectors included.
C18_Symmetric ==
    call.fn = "cosineSimilarity" =>
        call.result = cosineSimilarity(call.args[2], call.args[1])

\* Two different vectors of different magnitudes with a similarity that is
\* not 0.
C18_Witness ==
    /\ call.fn = "cosineSimilarity"
    /\ call.args = <<Vec(<<1, 2>>), Vec(<<2, 2>>)>>
    /\ call.result.sign = 1

\* The text neither starts nor ends with a space or a quote character.
IsBare(text) ==
    /\ text # <<>>
    /\ Head(text) \notin {" ", "\""}
    /\ text[Len(text)] \notin {" ", "\""}

\* C19 as claimed: the website list parsed from a comma-separated text, by
\* createInitialTask and by handleSendData alike, has no empty entry and
\* every entry is without surrounding whitespace and quote characters.
C19_EntriesAreBare ==
    call.fn \in {"createInitialTask", "handleSendData"} =>
        \A i \in 1..Len(call.result) : IsBare(call.result[i])

\* Some entry of the list contains the text.
Matches(url, list) == \E i \in 1..Len(list) : includes(url, list[i])

\* C20: a relevance check is started only by a navigation in focus mode,
\* with a task set, to a URL that matches neither the allowed list nor the
\* task-specific list; and a website is blocked only as the outcome of
\* such a check, so a URL that matches a list at its navigation is neither
\* sent to the API nor blocked.
C20_ListedUrlsNeverChecked ==
    /\ [][\A c \in Checks :
             (checks[c].pc = "unused" /\ checks'[c].pc # "unused") =>
                 /\ bg.isFocusModeActive
                 /\ bg.currentTask # <<>>
                 /\ ~Matches(checks'[c].tabDetails.tabURL, bg.allowedWebsites)
                 /\ ~Matches(checks'[c].tabDetails.tabURL, bg.taskSpecificWebsites)
                 /\ checks'[c].pc = "await_fetch"]_vars
    /\ [](/\ \A i \in 1..Len(bg.blockedSites) :
                \E c \in Checks :
                    /\ checks[c].pc = "done"
                    /\ checks[c].redirect # Null
                    /\ checks[c].tabDetails = bg.blockedSites[i]
          /\ bg.productivityStats.sitesBlocked
                 = Cardinality({c \in Checks : checks[c].pc = "done"
                                                  /\ checks[c].redirect # Null}))

\* With a task-specific list in place, a page on neither list was checked
\* and blocked.
C20_Witness ==
    \E c \in Checks :
        /\ bg.taskSpecificWebsites = << <<"docs.dev">> >>
        /\ checks[c].pc = "done"
        /\ checks[c].tabDetails.tabURL = <<"https://", "news.com", "/">>
        /\ checks[c].redirect # Null
        /\ bg.blockedSites = <<checks[c].tabDetails>>

(***************************************************************************)
(* The dashboard page and the background script's startup: C21 to C30.     *)
(***************************************************************************)
\* C21: after pauseTimer (the timer is shown, isPaused is set and no
\* interval), timeLeft does not change and no tick interval runs until the
\* user resumes, stops or starts a session, whatever timerState
\* storage-change events are delivered in between.
C21_PauseHolds ==
    [][(/\ view = "timer"
        /\ focusTimer.isPaused
        /\ ~focusTimer.timer
        /\ ~togglePause
        /\ ~StopButton
        /\ ~quickStart
        /\ ~\E task \in TaskInputs, duration \in FocusDurations,
                 breakDuration \in BreakDurations :
                handleFocusStart(task, duration, breakDuration))
          => (focusTimer'.timeLeft = focusTimer.timeLeft /\ ~focusTimer'.timer)]_vars

\* C22: a tab is redirected to the blocked page only while focus mode is
\* active, also when the check was still in flight as focus mode was
\* stopped, and the blocked-page URL carries the task that was current when
\* the check was issued.
C22_BlocksOnlyWhileActive ==
    [][\A c \in Checks :
          (checks[c].pc # "done" /\ checks'[c].pc = "done" /\ checks'[c].redirect # Null)
             => /\ bg.isFocusModeActive
                /\ checks'[c].redirect.query.task = checks[c].body.goalNeeded]_vars

\* C23: a state change made by a message handler (one that answered
\* success) is never overwritten by a loadState callback that completes
\* afterwards: the fields keep the handler's values and match what
\* saveState persisted.
C23_LoadNeverOverwritesHandler ==
    [][(reply # Null /\ "success" \in DOMAIN reply /\ LoadStateCallback)
          => (bg' = bg /\ storage' = saveState(bg'))]_vars

\* C24: on browser startup, if the persisted state has focus mode active
\* with a start time more than 240 minutes in the past, focus mode ends up
\* stopped, in memory and in storage, once startup handling has finished:
\* handleStartup has run, every loadState callback has run, and no message
\* has been handled.
C24_StaleFocusModeIsStopped ==
    (/\ startups > 0
     /\ loads = <<>>
     /\ reply = Null
     /\ "isFocusModeActive" \in DOMAIN persisted
     /\ persisted.isFocusModeActive
     /\ persisted.focusStartTime # Null
     /\ now - persisted.focusStartTime.iso > AutoStopMinutes)
       => /\ ~bg.isFocusModeActive
          /\ bg.focusStartTime = Null
          /\ ~storage.isFocusModeActive
          /\ storage.focusStartTime = Null

\* C25: when a break completes (the interval fires with the break's time
\* used up) and another session remains, the next focus period counts down
\* from the focus duration given to startFocusSession (duration * 60
\* seconds), not from the break duration.
C25_NextPeriodHasFocusDuration ==
    [][(/\ focusTimer.timer
        /\ focusTimer.timeLeft <= 0
        /\ focusTimer.isBreak
        /\ focusTimer.currentSession + 1 <= focusTimer.totalSessions
        /\ updateTimer)
          => focusTimer'.timeLeft = localStorage.currentFocusTask.duration * 60]_vars

\* C26: every session started with startFocusSession eventually reaches the
\* stopped state (no interval is set and no timer state is saved), provided
\* ticks keep occurring and the user does not leave it paused, for every
\* focus duration and break duration, 0 included.
C26_EverySessionStops ==
    (view = "timer")
       ~> (/\ ~focusTimer.timer
           /\ localStorage.focusFlowTimerState = Null
           /\ chromeLocal.timerState = Null)

\* C27: when the timer is stopped, the focus minutes credited to the
\* dashboard are the time that elapsed in the current period,
\* originalDuration minus the timeLeft at the moment stop was requested;
\* stopping immediately after starting credits 0 minutes.
C27_StopCreditsElapsedTime ==
    [][StopButton
          => stats' = updateFocusTime(stats,
                         Round(focusTimer.originalDuration - focusTimer.timeLeft, 60))]_vars

\* C28: starting one focus session from the dashboard (the form submitted
\* with a task, or the quick start button clicked) increases the
\* focusSessions statistic by exactly 1.
C28_StartCountsOneSession ==
    [][(\/ quickStart
        \/ \E task \in TaskInputs, duration \in FocusDurations,
                 breakDuration \in BreakDurations :
                trim(task) # <<>> /\ handleFocusStart(task, duration, breakDuration))
          => stats'.focusSessions = stats.focusSessions + 1]_vars

\* C29: whenever the periodic 'cleanupData' alarm fires, cleanupOldData
\* runs and blockedSites is trimmed to its 100 most recent entries, so the
\* list does not grow across alarm periods.
C29_CleanupAlarmTrims ==
    [][onAlarm("cleanupData")
          => /\ bg'.blockedSites = sliceLast(bg.blockedSites, KeepLast)
             /\ Len(bg'.blockedSites) <= KeepLast]_vars

\* C30: a sendData message that lacks receivedArray or taskGoal is answered
\* with an error and leaves the background state unchanged:
\* taskSpecificWebsites, currentTask, isFocusModeActive, focusStartTime and
\* productivityStats.focusSessions keep their values and nothing is saved.
C30_InvalidSendDataChangesNothing ==
    [][\A data \in SendDataMessages :
          ((Falsy(data, "receivedArray") \/ Falsy(data, "taskGoal")) /\ handleSendData(data))
             => /\ reply' = [error |-> "Missing required data"]
                /\ bg'.taskSpecificWebsites = bg.taskSpecificWebsites
                /\ bg'.currentTask = bg.currentTask
                /\ bg'.isFocusModeActive = bg.isFocusModeActive
                /\ bg'.focusStartTime = bg.focusStartTime
                /\ bg'.productivityStats.focusSessions = bg.productivityStats.focusSessions
                /\ storage' = storage]_vars

\* An incomplete sendData was answered while a task of an earlier session
\* was loaded and focus mode was not active.
C30_Witness ==
    /\ reply = [error |-> "Missing required data"]
    /\ bg.currentTask = <<"old">>
    /\ ~bg.isFocusModeActive

(***************************************************************************)
(* Navigations after a quick start, the appended links and the response    *)
(* cache: C31 to C33.                                                      *)
(***************************************************************************)
\* C31: whenever focus mode is active, every completed navigation to a
\* page that matches neither the allowed list nor the task-specific list
\* is submitted for a relevance check, also when focus mode was started by
\* a startFocusMode message: in every state with focus mode active and a
\* call of checkWebsiteRelevance still to be made, handleTabUpdate for such
\* a page starts a check of it.
C31_ActiveNavigationsAreChecked ==
    (bg.isFocusModeActive /\ \E c \in Checks : checks[c].pc = "unused")
       => \A tabId \in Tabs, url \in Urls, title \in Titles :
             (~isWebsiteAllowed(bg, url) /\ ~isTaskSpecificWebsite(bg, url))
                => ENABLED (/\ handleTabUpdate(tabId, url, title)
                            /\ \E c \in Checks :
                                  /\ checks'[c].pc = "await_fetch"
                                  /\ checks'[c].tabDetails.tabURL = url)

\* C32: after appendBlockedLink(website) has succeeded (the website is in
\* savedBlockLinks, which only that handler fills), a navigation during
\* focus mode to a page of that website is treated as allowed: no relevance
\* check is started for it, so it is neither sent to the API nor blocked.
C32_AppendedLinksAreAllowed ==
    [][\A tabId \in Tabs, url \in Urls, title \in Titles :
          (/\ \E i \in 1..Len(bg.savedBlockLinks) : includes(url, bg.savedBlockLinks[i])
           /\ handleTabUpdate(tabId, url, title))
             => UNCHANGED checks]_vars

\* C33: cacheMiddleware serves a cached response only to a request
\* equivalent to the one that produced it: a request answered from the
\* cache (X-Cache: HIT) has the method, the URL and the body of a request
\* whose handler produced that response with status 200, so two requests
\* with the same method and URL and different bodies never receive each
\* other's response.
C33_HitsComeFromEquivalentRequests ==
    \A r \in 1..NumCached :
       creq[r].xCache = "HIT"
          => \E q \in 1..NumCached :
                /\ creq[q].xCache = "MISS"
                /\ creq[q].request = creq[r].request
                /\ creq[q].res = creq[r].res
                /\ creq[q].res.status = 200

====
